---- MODULE Spec2Model ----
(***************************************************************************)
(* Model of ndcalc-core: tokenizer, recursive-descent parser, bytecode     *)
(* compiler, stack VM, forward-mode AD, finite differences and the C API   *)
(* that dispatches between them.                                           *)
(*                                                                         *)
(* Strings are sequences of one-character strings, positions are 0-based   *)
(* as in the C++ code.  A double is an integer of a small lattice          *)
(* -MaxVal..MaxVal plus the three non-finite values PosInf, NegInf, NaN;   *)
(* an arithmetic result outside the lattice overflows to an infinity and   *)
(* an inexact quotient is rounded toward zero.  Error messages keep the    *)
(* fixed part of the C++ text.                                             *)
(***************************************************************************)
EXTENDS Integers, Sequences, FiniteSets, TLC

VARIABLES
    parser,     \* the Parser object: tokens_, variable_indices_, error_message_, max_depth_
    parse_in,   \* the arguments of the pending / last Parser::parse call
    parse_out,  \* what the last Parser::parse call returned
    ctx,        \* ndcalc_context_t: last_error, ad_mode, fd_epsilon
    handle,     \* the ndcalc_program_t behind the caller's program handle, if any
    last,       \* the last API call: arguments, return code, outputs, engines run
    evaluators  \* the VM objects of concurrent callers, each with its position

vars == <<parser, parse_in, parse_out, ctx, handle, last, evaluators>>

(***************************************************************************)
(* Bounds of the model.                                                    *)
(***************************************************************************)
MaxVal == 6          \* largest finite magnitude of the double lattice
MaxExprLen == 4      \* characters of an expression in the tokenizer runs
MaxLexemes == 5      \* lexemes of an expression in the parser runs
MaxPoints == 2       \* points of a batch evaluation

(***************************************************************************)
(* Doubles.                                                                *)
(***************************************************************************)
PosInf == MaxVal + 1
NegInf == 0 - (MaxVal + 1)
NaN == MaxVal + 2
Unwritten == MaxVal + 3     \* an output slot the call did not store to

IsNaN(a) == a = NaN
IsFinite(a) == a >= 0 - MaxVal /\ a <= MaxVal
Doubles == (NegInf..PosInf) \cup {NaN}

\* round an exact integer result into the lattice
Sat(n) == IF n > MaxVal THEN PosInf ELSE IF n < 0 - MaxVal THEN NegInf ELSE n

AbsInt(n) == IF n < 0 THEN 0 - n ELSE n
Sign(n) == IF n < 0 THEN 0 - 1 ELSE IF n > 0 THEN 1 ELSE 0
\* integer quotient rounded toward zero (b # 0)
TruncDiv(a, b) == Sign(a) * Sign(b) * (AbsInt(a) \div AbsInt(b))

\* IEEE comparisons: every comparison with NaN is false
FEq(a, b) == ~IsNaN(a) /\ ~IsNaN(b) /\ a = b
FLt(a, b) == ~IsNaN(a) /\ ~IsNaN(b) /\ a < b
FLe(a, b) == ~IsNaN(a) /\ ~IsNaN(b) /\ a <= b
FGe(a, b) == ~IsNaN(a) /\ ~IsNaN(b) /\ a >= b

FNeg(a) == IF IsNaN(a) THEN NaN ELSE 0 - a

FAdd(a, b) ==
    IF IsNaN(a) \/ IsNaN(b) THEN NaN
    ELSE IF (a = PosInf /\ b = NegInf) \/ (a = NegInf /\ b = PosInf) THEN NaN
    ELSE IF ~IsFinite(a) THEN a
    ELSE IF ~IsFinite(b) THEN b
    ELSE Sat(a + b)

FSub(a, b) == FAdd(a, FNeg(b))

FMul(a, b) ==
    IF IsNaN(a) \/ IsNaN(b) THEN NaN
    ELSE IF ~IsFinite(a) \/ ~IsFinite(b)
         THEN (IF a = 0 \/ b = 0 THEN NaN
               ELSE IF Sign(a) * Sign(b) > 0 THEN PosInf ELSE NegInf)
    ELSE Sat(a * b)

\* IEEE division, also by zero (the VM checks for a zero divisor itself)
FDiv(a, b) ==
    IF IsNaN(a) \/ IsNaN(b) THEN NaN
    ELSE IF ~IsFinite(a) /\ ~IsFinite(b) THEN NaN
    ELSE IF ~IsFinite(a) THEN (IF b >= 0 THEN a ELSE FNeg(a))
    ELSE IF ~IsFinite(b) THEN 0
    ELSE IF b = 0 THEN (IF a = 0 THEN NaN ELSE IF a > 0 THEN PosInf ELSE NegInf)
    ELSE TruncDiv(a, b)

FAbs(a) == IF IsNaN(a) THEN NaN ELSE AbsInt(a)

RECURSIVE IntPow(_, _)
\* a^n for n >= 0, cut off as soon as it leaves the lattice
IntPow(a, n) ==
    IF n = 0 THEN 1
    ELSE LET r == IntPow(a, n - 1)
         IN  IF ~IsFinite(r) THEN (IF a < 0 THEN FNeg(r) ELSE r) ELSE Sat(r * a)

\* std::pow on the lattice
FPow(a, b) ==
    IF FEq(b, 0) \/ FEq(a, 1) THEN 1
    ELSE IF IsNaN(a) \/ IsNaN(b) THEN NaN
    ELSE IF b = PosInf THEN (IF AbsInt(a) > 1 THEN PosInf ELSE IF a = 0 THEN 0 ELSE 1)
    ELSE IF b = NegInf THEN (IF AbsInt(a) > 1 THEN 0 ELSE IF a = 0 THEN PosInf ELSE 1)
    ELSE IF a = PosInf THEN (IF b > 0 THEN PosInf ELSE 0)
    ELSE IF a = NegInf THEN (IF b < 0 THEN 0 ELSE IF b % 2 = 1 THEN NegInf ELSE PosInf)
    ELSE IF b > 0 THEN IntPow(a, b)
    ELSE IF a = 0 THEN PosInf
    ELSE FDiv(1, IntPow(a, 0 - b))

RECURSIVE ISqrt(_, _)
ISqrt(n, r) == IF (r + 1) * (r + 1) > n THEN r ELSE ISqrt(n, r + 1)

\* std::sqrt on the lattice (callers have excluded a < 0)
FSqrt(a) ==
    IF IsNaN(a) \/ a < 0 THEN NaN ELSE IF a = PosInf THEN PosInf ELSE ISqrt(a, 0)

\* std::exp on the lattice: e^a rounded toward zero
FExp(a) ==
    IF IsNaN(a) THEN NaN
    ELSE IF a < 0 THEN 0
    ELSE IF a = 0 THEN 1
    ELSE IF a = 1 THEN Sat(2)
    ELSE IF a = 2 THEN Sat(7)
    ELSE IF a = 3 THEN Sat(20)
    ELSE PosInf

\* std::log on the lattice, ln(a) rounded toward zero (callers have excluded a <= 0)
FLog(a) ==
    IF IsNaN(a) \/ a < 0 THEN NaN
    ELSE IF a = 0 THEN NegInf
    ELSE IF a = PosInf THEN PosInf
    ELSE IF a < 3 THEN 0
    ELSE IF a < 8 THEN 1
    ELSE IF a < 21 THEN 2
    ELSE 3

\* sin, cos, tan of an integer number of radians, rounded toward zero
FSin(a) == IF ~IsFinite(a) THEN NaN ELSE 0
FCos(a) == IF ~IsFinite(a) THEN NaN ELSE IF a = 0 THEN 1 ELSE 0
FTan(a) ==
    IF ~IsFinite(a) THEN NaN
    ELSE LET m == AbsInt(a)
             t == CASE m \in {1, 4} -> 1
                    [] m = 2 -> 0 - 2
                    [] m = 5 -> 0 - 3
                    [] m = 8 -> 0 - 6
                    [] OTHER -> 0
         IN  Sat(Sign(a) * t)

(***************************************************************************)
(* Characters and tokens (parser.h, parser.cpp).                           *)
(***************************************************************************)
Digits == {"0", "1", "2", "3", "4", "5", "6", "7", "8", "9"}
Letters ==
    {"a", "b", "c", "d", "e", "f", "g", "h", "i", "j", "k", "l", "m", "n", "o", "p",
     "q", "r", "s", "t", "u", "v", "w", "x", "y", "z", "E"}
Spaces == {" "}

isdigit(c) == c \in Digits
isalpha(c) == c \in Letters
isalnum(c) == isalpha(c) \/ isdigit(c)
isspace(c) == c \in Spaces

\* expression[pos] and expression.substr(start, n), 0-based
At(s, pos) == s[pos + 1]
Substr(s, start, n) == SubSeq(s, start + 1, start + n)

Token(type, value, position) == [type |-> type, value |-> value, position |-> position]

FunctionNames ==
    {<<"s", "i", "n">>, <<"c", "o", "s">>, <<"t", "a", "n">>, <<"e", "x", "p">>,
     <<"l", "o", "g">>, <<"s", "q", "r", "t">>, <<"a", "b", "s">>, <<"p", "o", "w">>}

\* a character the number loop of tokenize consumes at pos, the number starting at start
NumberChar(expression, start, pos) ==
    \/ isdigit(At(expression, pos))
    \/ At(expression, pos) = "."
    \/ At(expression, pos) = "e"
    \/ At(expression, pos) = "E"
    \/ (pos > start /\ (At(expression, pos) = "+" \/ At(expression, pos) = "-"))

RECURSIVE ScanNumber(_, _, _)
\* the position the number loop stops at
ScanNumber(expression, start, pos) ==
    IF pos < Len(expression) /\ NumberChar(expression, start, pos)
    THEN ScanNumber(expression, start, pos + 1)
    ELSE pos

RECURSIVE ScanName(_, _)
\* the position the identifier loop stops at
ScanName(expression, pos) ==
    IF pos < Len(expression) /\ (isalnum(At(expression, pos)) \/ At(expression, pos) = "_")
    THEN ScanName(expression, pos + 1)
    ELSE pos

RECURSIVE TokenizeFrom(_, _, _)
RECURSIVE TokenizeAt(_, _, _, _)
\* one turn of the main loop of tokenize on the character c at pos; the
\* character classes exclude one another, so the order of the tests of the
\* code does not show
TokenizeAt(expression, pos, tokens, c) ==
    CASE isspace(c) -> TokenizeFrom(expression, pos + 1, tokens)
      [] isdigit(c) \/ c = "." ->
            LET stop == ScanNumber(expression, pos, pos)
            IN  TokenizeFrom(expression, stop,
                    Append(tokens, Token("NUMBER", Substr(expression, pos, stop - pos), pos)))
      [] isalpha(c) \/ c = "_" ->
            LET stop == ScanName(expression, pos)
                name == Substr(expression, pos, stop - pos)
            IN  TokenizeFrom(expression, stop,
                    Append(tokens, Token(IF name \in FunctionNames THEN "FUNCTION"
                                         ELSE "VARIABLE", name, pos)))
      [] c \in {"+", "-", "*", "/", "^"} ->
            TokenizeFrom(expression, pos + 1, Append(tokens, Token("OPERATOR", <<c>>, pos)))
      [] c = "(" ->
            TokenizeFrom(expression, pos + 1, Append(tokens, Token("LPAREN", <<c>>, pos)))
      [] c = ")" ->
            TokenizeFrom(expression, pos + 1, Append(tokens, Token("RPAREN", <<c>>, pos)))
      [] c = "," ->
            TokenizeFrom(expression, pos + 1, Append(tokens, Token("COMMA", <<c>>, pos)))
      [] OTHER -> [tokens |-> <<>>, error |-> "Unexpected character at position"]

\* the main loop of tokenize from pos on, tokens being those pushed so far
TokenizeFrom(expression, pos, tokens) ==
    IF pos >= Len(expression)
    THEN [tokens |-> Append(tokens, Token("END", <<>>, Len(expression))), error |-> ""]
    ELSE TokenizeAt(expression, pos, tokens, At(expression, pos))

\* a tokenizer that pushes no END token
tokenize_NoEnd(expression) ==
    [TokenizeFrom(expression, 0, <<>>) EXCEPT !.tokens = SubSeq(@, 1, Len(@) - 1)]

\* Parser::tokenize: the token list (empty on failure) and the error message it stores
tokenize(expression) == TokenizeFrom(expression, 0, <<>>)

(***************************************************************************)
(* AST and recursive-descent parser (parser.cpp).                          *)
(***************************************************************************)
Max(a, b) == IF a >= b THEN a ELSE b

\* Body applied to the value v: names an intermediate result once
Let(v, Body(_)) == Body(v)

Node(type, value, children) == [type |-> type, value |-> value, children |-> children]
NullNode == Node("NULL", <<>>, <<>>)      \* a null unique_ptr<ASTNode>

DigitSeq == <<"0", "1", "2", "3", "4", "5", "6", "7", "8", "9">>
RECURSIVE to_string(_)
\* std::to_string of a size_t
to_string(n) ==
    IF n < 10 THEN <<DigitSeq[n + 1]>> ELSE Append(to_string(n \div 10), DigitSeq[(n % 10) + 1])

\* a map that numbers the variables from 1
VariableIndices_OneBased(variables) ==
    [name \in {variables[i] : i \in 1..Len(variables)} |->
        CHOOSE i \in 1..Len(variables) : variables[i] = name]

\* variable_indices_ as Parser::parse fills it: a later duplicate overwrites
VariableIndices(variables) ==
    [name \in {variables[i] : i \in 1..Len(variables)} |->
        CHOOSE i \in 0..(Len(variables) - 1) :
            /\ variables[i + 1] = name
            /\ \A j \in 0..(Len(variables) - 1) : variables[j + 1] = name => j <= i]

\* a depth check that lets depth = max_depth through
check_depth_Unlimited(depth, max_depth) == TRUE
check_depth_Late(depth, max_depth) == ~(depth > max_depth)

\* Parser::check_depth
check_depth(depth, max_depth) == ~(depth >= max_depth)

DepthError == "Expression too deeply nested"

\* What a grammar rule hands back: the node (ok = FALSE for nullptr), the
\* position it advanced pos to, the text it stored in error_message_ ("" if
\* none), and two observations of the call tree below it: the largest depth
\* any rule was invoked with, and the largest depth of a rule that passed
\* its depth check (-1 if none did).  A rule invoked at depth > 0 was invoked
\* by a rule that passed its check at depth - 1, so a rule that fails its
\* check at depth reports depth - 1 as the largest depth entered.
Ok(node, pos, deepest, entered) ==
    [ok |-> TRUE, node |-> node, pos |-> pos, error |-> "",
     deepest |-> deepest, entered |-> entered]
Fail(error, pos, deepest, entered) ==
    [ok |-> FALSE, node |-> NullNode, pos |-> pos, error |-> error,
     deepest |-> deepest, entered |-> entered]
\* the result r of a callee, seen from a rule that runs at depth and has seen s before
Seen(r, deepest, entered) ==
    [r EXCEPT !.deepest = Max(@, deepest), !.entered = Max(@, entered)]

\* tokens_[pos]; a read past the end is shown as a token of a type no rule
\* expects, so that the run stops at the position it read
Tok(P, pos) ==
    IF pos < Len(P.tokens) THEN P.tokens[pos + 1] ELSE Token("BEYOND", <<>>, pos)
IsOp(P, pos, ops) ==
    pos < Len(P.tokens) /\ Tok(P, pos).type = "OPERATOR" /\ Tok(P, pos).value \in ops

RECURSIVE parse_expression(_, _, _)
RECURSIVE expression_loop(_, _, _)
RECURSIVE parse_term(_, _, _)
RECURSIVE term_loop(_, _, _)
RECURSIVE parse_factor(_, _, _)
RECURSIVE parse_primary(_, _, _)
RECURSIVE primary_of(_, _, _, _)
RECURSIVE arguments_loop(_, _, _, _, _)
RECURSIVE function_call(_, _, _, _)
RECURSIVE exponent(_, _, _)

\* a unary minus that takes a whole factor as its operand
unary_operand_Factor(P, pos, depth) == parse_factor(P, pos, depth)

\* the rule the unary minus of parse_primary calls for its operand
unary_operand(P, pos, depth) == parse_primary(P, pos, depth)

\* the while loop of parse_expression, left being the result so far
expression_loop(P, left, depth) ==
    IF IsOp(P, left.pos, {<<"+">>, <<"-">>})
    THEN Let(Seen(parse_term(P, left.pos + 1, depth + 1), left.deepest, left.entered),
             LAMBDA right :
                 IF ~right.ok THEN right
                 ELSE expression_loop(P,
                          [right EXCEPT !.node = Node("BINARY_OP", Tok(P, left.pos).value,
                                                      <<left.node, right.node>>)],
                          depth))
    ELSE left

parse_expression(P, pos, depth) ==
    IF ~check_depth(depth, P.max_depth) THEN Fail(DepthError, pos, depth, depth - 1)
    ELSE Let(parse_term(P, pos, depth + 1),
             LAMBDA left : IF ~left.ok THEN left ELSE expression_loop(P, left, depth))

\* the while loop of parse_term
term_loop(P, left, depth) ==
    IF IsOp(P, left.pos, {<<"*">>, <<"/">>})
    THEN Let(Seen(parse_factor(P, left.pos + 1, depth + 1), left.deepest, left.entered),
             LAMBDA right :
                 IF ~right.ok THEN right
                 ELSE term_loop(P,
                          [right EXCEPT !.node = Node("BINARY_OP", Tok(P, left.pos).value,
                                                      <<left.node, right.node>>)],
                          depth))
    ELSE left

parse_term(P, pos, depth) ==
    IF ~check_depth(depth, P.max_depth) THEN Fail(DepthError, pos, depth, depth - 1)
    ELSE Let(parse_factor(P, pos, depth + 1),
             LAMBDA left : IF ~left.ok THEN left ELSE term_loop(P, left, depth))

\* the exponent side of parse_factor, left being the primary
exponent(P, left, depth) ==
    IF IsOp(P, left.pos, {<<"^">>})
    THEN Let(Seen(parse_factor(P, left.pos + 1, depth + 1), left.deepest, left.entered),
             LAMBDA right :
                 IF ~right.ok THEN right
                 ELSE [right EXCEPT
                          !.node = Node("BINARY_OP", <<"^">>, <<left.node, right.node>>)])
    ELSE left

parse_factor(P, pos, depth) ==
    IF ~check_depth(depth, P.max_depth) THEN Fail(DepthError, pos, depth, depth - 1)
    ELSE Let(parse_primary(P, pos, depth + 1),
             LAMBDA left : IF ~left.ok THEN left ELSE exponent(P, left, depth))

\* the while (true) loop over the arguments of a function call: node is the
\* FUNCTION_CALL node so far, pos the position of the next argument
arguments_loop(P, node, pos, depth, seen) ==
    Let(Seen(parse_expression(P, pos, depth + 1), seen.deepest, seen.entered),
        LAMBDA arg :
            IF ~arg.ok THEN arg
            ELSE IF Tok(P, arg.pos).type = "RPAREN"
            THEN [arg EXCEPT !.node = [node EXCEPT !.children = Append(@, arg.node)]]
            ELSE IF Tok(P, arg.pos).type = "COMMA"
            THEN arguments_loop(P, [node EXCEPT !.children = Append(@, arg.node)],
                                arg.pos + 1, depth, arg)
            ELSE Fail("Expected ',' or ')' in function call", arg.pos,
                      arg.deepest, arg.entered))

\* the FUNCTION case of parse_primary once '(' was seen: node is the empty
\* FUNCTION_CALL node, pos the position after '('
function_call(P, node, pos, depth) ==
    Let(IF Tok(P, pos).type # "RPAREN"
        THEN arguments_loop(P, node, pos, depth, Ok(node, pos, depth, depth))
        ELSE Ok(node, pos, depth, depth),
        LAMBDA args : IF ~args.ok THEN args ELSE [args EXCEPT !.pos = @ + 1])

\* the branch of parse_primary for a token of each type; the types exclude
\* one another, so the order of the tests of the code does not show
primary_of(P, pos, depth, token) ==
    CASE token.type = "OPERATOR" /\ token.value = <<"-">> ->
            Let(unary_operand(P, pos + 1, depth + 1),
                LAMBDA operand :
                    IF ~operand.ok THEN operand
                    ELSE [operand EXCEPT
                             !.node = Node("UNARY_OP", <<"-">>, <<operand.node>>)])
      [] token.type = "OPERATOR" /\ token.value = <<"+">> ->
            parse_primary(P, pos + 1, depth + 1)
      [] token.type = "NUMBER" ->
            Ok(Node("NUMBER", token.value, <<>>), pos + 1, depth, depth)
      [] token.type = "VARIABLE" ->
            IF token.value \notin DOMAIN P.variable_indices
            THEN Fail("Unknown variable", pos, depth, depth)
            ELSE Ok(Node("VARIABLE", to_string(P.variable_indices[token.value]), <<>>),
                    pos + 1, depth, depth)
      [] token.type = "FUNCTION" ->
            IF pos + 1 >= Len(P.tokens) \/ Tok(P, pos + 1).type # "LPAREN"
            THEN Fail("Expected '(' after function name", pos + 1, depth, depth)
            ELSE function_call(P, Node("FUNCTION_CALL", token.value, <<>>), pos + 2, depth)
      [] token.type = "LPAREN" ->
            Let(parse_expression(P, pos + 1, depth + 1),
                LAMBDA node :
                    IF ~node.ok THEN node
                    ELSE IF node.pos >= Len(P.tokens) \/ Tok(P, node.pos).type # "RPAREN"
                    THEN Fail("Expected closing parenthesis", node.pos, node.deepest,
                              node.entered)
                    ELSE [node EXCEPT !.pos = @ + 1])
      [] OTHER -> Fail("Unexpected token", pos, depth, depth)

parse_primary(P, pos, depth) ==
    IF ~check_depth(depth, P.max_depth) THEN Fail(DepthError, pos, depth, depth - 1)
    ELSE IF pos >= Len(P.tokens) THEN Fail("Unexpected end of expression", pos, depth, depth)
    ELSE primary_of(P, pos, depth, Tok(P, pos))

\* an end of parse that hands back whatever the expression rule matched
parse_result_AnyRest(q, P, result) ==
    [parser |-> [q EXCEPT !.error_message_ = result.error],
     ok |-> result.ok, node |-> result.node, pos |-> result.pos, matched |-> result.ok,
     deepest |-> result.deepest, entered |-> result.entered]

\* the end of Parser::parse: q is the parser with its tables filled, result
\* what parse_expression handed back; matched tells whether the expression
\* rule returned a node
parse_result(q, P, result) ==
    IF result.ok /\ Tok(P, result.pos).type # "END"
    THEN [parser |-> [q EXCEPT !.error_message_ = "Unexpected tokens after expression"],
          ok |-> FALSE, node |-> NullNode, pos |-> result.pos, matched |-> result.ok,
          deepest |-> result.deepest, entered |-> result.entered]
    ELSE [parser |-> [q EXCEPT !.error_message_ = result.error],
          ok |-> result.ok, node |-> result.node, pos |-> result.pos, matched |-> result.ok,
          deepest |-> result.deepest, entered |-> result.entered]

\* Parser::parse once tokenize has run: t is what tokenize handed back
parse_tokens(p, t, indices) ==
    IF t.tokens = <<>>
    THEN [parser |-> [p EXCEPT !.tokens_ = t.tokens, !.variable_indices_ = indices,
                               !.error_message_ = t.error],
          ok |-> FALSE, node |-> NullNode, pos |-> 0, matched |-> FALSE,
          deepest |-> 0 - 1, entered |-> 0 - 1]
    ELSE parse_result([p EXCEPT !.tokens_ = t.tokens, !.variable_indices_ = indices],
                      [tokens |-> t.tokens, variable_indices |-> indices,
                       max_depth |-> p.max_depth_],
                      parse_expression([tokens |-> t.tokens, variable_indices |-> indices,
                                        max_depth |-> p.max_depth_], 0, 0))

\* Parser::parse on the Parser object p: the object afterwards and the returned
\* AST (ok = FALSE for nullptr), with the observations of the rule calls
parse(p, expression, variables) ==
    parse_tokens(p, tokenize(expression), VariableIndices(variables))

(***************************************************************************)
(* Bytecode and compiler (bytecode.h, compiler.cpp).                       *)
(***************************************************************************)
\* Instruction: the opcode and the operand union (const_value for PUSH_CONST,
\* var_index for LOAD_VAR, 0.0 otherwise)
Instruction(opcode, operand) == [opcode |-> opcode, operand |-> operand]

DigitVal(c) == CHOOSE d \in 0..9 : DigitSeq[d + 1] = c

RECURSIVE DigitsEnd(_, _)
\* the first position from pos on that holds no digit
DigitsEnd(v, pos) ==
    IF pos < Len(v) /\ isdigit(At(v, pos)) THEN DigitsEnd(v, pos + 1) ELSE pos

RECURSIVE DigitsValue(_, _, _)
\* the number written by the digits v[from..to-1]
DigitsValue(v, from, to) ==
    IF to <= from THEN 0 ELSE 10 * DigitsValue(v, from, to - 1) + DigitVal(At(v, to - 1))

RECURSIVE Pow10(_)
Pow10(n) == IF n <= 0 THEN 1 ELSE 10 * Pow10(n - 1)

\* std::stod on the text of a NUMBER token: the longest prefix
\* digits [. digits] [(e|E) [+|-] digits] is converted, the rest is ignored;
\* thrown when the prefix holds no mantissa digit
stod(v) ==
    Let(DigitsEnd(v, 0), LAMBDA intEnd :
    Let(IF intEnd < Len(v) /\ At(v, intEnd) = "." THEN DigitsEnd(v, intEnd + 1) ELSE intEnd,
        LAMBDA fracEnd :
    Let(IF fracEnd > intEnd THEN fracEnd - (intEnd + 1) ELSE 0, LAMBDA fracLen :
    Let(DigitsValue(v, 0, intEnd) * Pow10(fracLen)
            + (IF fracEnd > intEnd THEN DigitsValue(v, intEnd + 1, fracEnd) ELSE 0),
        LAMBDA mantissa :
    Let(fracEnd < Len(v) /\ At(v, fracEnd) \in {"e", "E"}, LAMBDA hasE :
    Let(hasE /\ fracEnd + 1 < Len(v) /\ At(v, fracEnd + 1) \in {"+", "-"}, LAMBDA signed :
    Let(IF signed THEN fracEnd + 2 ELSE fracEnd + 1, LAMBDA expStart :
    Let(IF hasE THEN DigitsEnd(v, expStart) ELSE expStart, LAMBDA expEnd :
    Let(IF ~(hasE /\ expEnd > expStart) THEN 0
        ELSE IF signed /\ At(v, fracEnd + 1) = "-"
             THEN 0 - DigitsValue(v, expStart, expEnd)
             ELSE DigitsValue(v, expStart, expEnd),
        LAMBDA expVal :
    Let(expVal - fracLen, LAMBDA scale :
        IF intEnd + fracLen = 0 THEN [thrown |-> TRUE, value |-> 0]
        ELSE [thrown |-> FALSE,
              value |-> IF mantissa = 0 THEN 0
                        ELSE IF scale > 9 THEN PosInf
                        ELSE IF scale < 0 - 9 THEN 0
                        ELSE IF scale >= 0 THEN Sat(mantissa * Pow10(scale))
                        ELSE Sat(mantissa \div Pow10(0 - scale))]))))))))))

\* std::stoull on the text of a VARIABLE node (always a to_string result)
stoull(v) == DigitsValue(v, 0, DigitsEnd(v, 0))

BinaryOpcodes ==
    (<<"+">> :> "ADD") @@ (<<"-">> :> "SUB") @@ (<<"*">> :> "MUL") @@
    (<<"/">> :> "DIV") @@ (<<"^">> :> "POW")
UnaryFunctionOpcodes ==
    (<<"s", "i", "n">> :> "SIN") @@ (<<"c", "o", "s">> :> "COS") @@
    (<<"t", "a", "n">> :> "TAN") @@ (<<"e", "x", "p">> :> "EXP") @@
    (<<"l", "o", "g">> :> "LOG") @@ (<<"s", "q", "r", "t">> :> "SQRT") @@
    (<<"a", "b", "s">> :> "ABS")

ArityMessages ==
    (<<"s", "i", "n">> :> "sin() requires exactly 1 argument") @@
    (<<"c", "o", "s">> :> "cos() requires exactly 1 argument") @@
    (<<"t", "a", "n">> :> "tan() requires exactly 1 argument") @@
    (<<"e", "x", "p">> :> "exp() requires exactly 1 argument") @@
    (<<"l", "o", "g">> :> "log() requires exactly 1 argument") @@
    (<<"s", "q", "r", "t">> :> "sqrt() requires exactly 1 argument") @@
    (<<"a", "b", "s">> :> "abs() requires exactly 1 argument") @@
    (<<"p", "o", "w">> :> "pow() requires exactly 2 arguments")

Emitted(code) == [thrown |-> FALSE, code |-> code, what |-> ""]

\* an arity test that only rejects too few arguments
arity_mismatch_TooFew(count, required) == count < required

\* the test node.children.size() != N of the FUNCTION_CALL case
arity_mismatch(count, required) == count # required
Thrown(what) == [thrown |-> TRUE, code |-> <<>>, what |-> what]

\* a compiler that visits the right operand first
operand_order_Reversed(children) == [k \in 1..Len(children) |-> children[Len(children) + 1 - k]]

\* the order in which the BINARY_OP case compiles its operands:
\* children[0], then children[1]
operand_order(children) == children

RECURSIVE compile_node(_, _)
\* Compiler::compile_node: the instructions appended to code, or the exception
compile_node(node, code) ==
    CASE node.type = "NUMBER" ->
            Let(stod(node.value), LAMBDA value :
                IF value.thrown THEN Thrown("stod")
                ELSE Emitted(Append(code, Instruction("PUSH_CONST", value.value))))
      [] node.type = "VARIABLE" ->
            Emitted(Append(code, Instruction("LOAD_VAR", stoull(node.value))))
      [] node.type = "BINARY_OP" ->
            IF Len(node.children) # 2
            THEN Thrown("Binary operation requires exactly 2 operands")
            ELSE LET l == compile_node(operand_order(node.children)[1], code) IN
                 IF l.thrown THEN l
                 ELSE LET r == compile_node(operand_order(node.children)[2], l.code) IN
                 IF r.thrown THEN r
                 ELSE IF node.value \in DOMAIN BinaryOpcodes
                 THEN Emitted(Append(r.code, Instruction(BinaryOpcodes[node.value], 0)))
                 ELSE Thrown("Unknown binary operator")
      [] node.type = "UNARY_OP" ->
            IF Len(node.children) # 1
            THEN Thrown("Unary operation requires exactly 1 operand")
            ELSE LET o == compile_node(node.children[1], code) IN
                 IF o.thrown THEN o
                 ELSE IF node.value = <<"-">>
                 THEN Emitted(Append(o.code, Instruction("NEG", 0)))
                 ELSE Thrown("Unknown unary operator")
      [] node.type = "FUNCTION_CALL" ->
            IF node.value \in DOMAIN UnaryFunctionOpcodes
            THEN IF arity_mismatch(Len(node.children), 1) THEN Thrown(ArityMessages[node.value])
                 ELSE LET a == compile_node(node.children[1], code) IN
                      IF a.thrown THEN a
                      ELSE Emitted(Append(a.code,
                                          Instruction(UnaryFunctionOpcodes[node.value], 0)))
            ELSE IF node.value = <<"p", "o", "w">>
            THEN IF arity_mismatch(Len(node.children), 2) THEN Thrown(ArityMessages[node.value])
                 ELSE LET a == compile_node(node.children[1], code) IN
                      IF a.thrown THEN a
                      ELSE LET b == compile_node(node.children[2], a.code) IN
                      IF b.thrown THEN b
                      ELSE Emitted(Append(b.code, Instruction("POW", 0)))
            ELSE Thrown("Unknown function")
      [] OTHER -> Emitted(code)

\* a compiler that appends nothing after the code of the root
Terminated_Open(code) == code

\* program->add_instruction(Instruction(OpCode::RETURN)) after the root's code
Terminated(code) == Append(code, Instruction("RETURN", 0))

\* Compiler::compile: the program (ok = FALSE for nullptr) and error_message_
compile(ast) ==
    Let(compile_node(ast, <<>>), LAMBDA body :
        IF body.thrown
        THEN [ok |-> FALSE, instructions |-> <<>>, error |-> body.what]
        ELSE [ok |-> TRUE, instructions |-> Terminated(body.code),
              error |-> ""])

(***************************************************************************)
(* Stack VM (vm.cpp).                                                      *)
(***************************************************************************)
BinaryOps == {"ADD", "SUB", "MUL", "DIV", "POW"}
UnaryOps == {"NEG", "SIN", "COS", "TAN", "EXP", "LOG", "SQRT", "ABS"}

Top(stack) == stack[Len(stack)]
Pop(stack, n) == SubSeq(stack, 1, Len(stack) - n)
Push(stack, v) == Append(stack, v)

\* a VM that keeps the stack of the call before
StackAtEntry_Kept(stack) == stack

\* the stack VM::execute starts from, given what the last call left in stack_
StackAtEntry(stack) == <<>>

\* the domain tests of the DIV, LOG and SQRT cases
DivFails(b) == FEq(b, 0)
LogFails_NegativeOnly(a) == FLt(a, 0)
LogFails(a) == FLe(a, 0)
SqrtFails(a) == FLt(a, 0)

\* an entry test that lets surplus inputs through
CountMismatch_TooFew(num_inputs, num_variables) == num_inputs < num_variables

\* the entry test on the input count
CountMismatch(num_inputs, num_variables) == num_inputs # num_variables

Running(stack, steps) == [state |-> "running", stack |-> stack, error |-> "", result |-> 0, steps |-> steps]
Halted(stack, error, steps) == [state |-> "failed", stack |-> stack, error |-> error, result |-> 0, steps |-> steps]
Returned(stack, result, steps) == [state |-> "returned", stack |-> stack, error |-> "", result |-> result, steps |-> steps]

BinaryResult(opcode, a, b) ==
    CASE opcode = "ADD" -> FAdd(a, b)
      [] opcode = "SUB" -> FSub(a, b)
      [] opcode = "MUL" -> FMul(a, b)
      [] opcode = "DIV" -> FDiv(a, b)
      [] opcode = "POW" -> FPow(a, b)

UnaryResult(opcode, a) ==
    CASE opcode = "NEG" -> FNeg(a)
      [] opcode = "SIN" -> FSin(a)
      [] opcode = "COS" -> FCos(a)
      [] opcode = "TAN" -> FTan(a)
      [] opcode = "EXP" -> FExp(a)
      [] opcode = "LOG" -> FLog(a)
      [] opcode = "SQRT" -> FSqrt(a)
      [] opcode = "ABS" -> FAbs(a)

\* a RETURN that takes the top of any non-empty stack
ReturnAccepts_NonEmpty(stack) == Len(stack) >= 1

\* the test stack_.size() != 1 of the RETURN case, negated
ReturnAccepts(stack) == Len(stack) = 1

\* one iteration of the instruction loop of VM::execute
VMStep(inst, stack, inputs, num_inputs, steps) ==
    LET op == inst.opcode IN
    CASE op = "PUSH_CONST" -> Running(Push(stack, inst.operand), steps + 1)
      [] op = "LOAD_VAR" ->
            IF inst.operand >= num_inputs
            THEN Halted(stack, "Variable index out of bounds", steps + 1)
            ELSE Running(Push(stack, inputs[inst.operand + 1]), steps + 1)
      [] op \in BinaryOps ->
            IF Len(stack) < 2 THEN Halted(stack, "Stack underflow in " \o op, steps + 1)
            ELSE LET b == Top(stack)
                     a == Top(Pop(stack, 1))
                 IN  IF op = "DIV" /\ DivFails(b)
                     THEN Halted(Pop(stack, 2), "Division by zero", steps + 1)
                     ELSE Running(Push(Pop(stack, 2), BinaryResult(op, a, b)), steps + 1)
      [] op \in UnaryOps ->
            IF Len(stack) = 0 THEN Halted(stack, "Stack underflow in " \o op, steps + 1)
            ELSE IF op = "LOG" /\ LogFails(Top(stack))
            THEN Halted(stack, "Logarithm of non-positive number", steps + 1)
            ELSE IF op = "SQRT" /\ SqrtFails(Top(stack))
            THEN Halted(stack, "Square root of negative number", steps + 1)
            ELSE Running(Push(Pop(stack, 1), UnaryResult(op, Top(stack))), steps + 1)
      [] op = "RETURN" ->
            IF ~ReturnAccepts(stack)
            THEN Halted(stack, "Invalid stack size at return", steps + 1)
            ELSE Returned(stack, Top(stack), steps + 1)

RECURSIVE VMLoop(_, _, _, _, _, _)
\* the instruction loop of VM::execute from instruction pc (1-based) on
VMLoop(instructions, pc, stack, inputs, num_inputs, steps) ==
    IF pc > Len(instructions) THEN Halted(stack, "Missing return instruction", steps)
    ELSE Let(VMStep(instructions[pc], stack, inputs, num_inputs, steps), LAMBDA r :
             IF r.state = "running"
             THEN VMLoop(instructions, pc + 1, r.stack, inputs, num_inputs, r.steps)
             ELSE r)

RECURSIVE VMTrace(_, _, _, _, _, _)
\* the iterations the instruction loop of VM::execute goes through from
\* instruction pc on: per iteration the opcode, the stack it found and how it
\* ended
VMTrace(instructions, pc, stack, inputs, num_inputs, acc) ==
    IF pc > Len(instructions) THEN acc
    ELSE Let(VMStep(instructions[pc], stack, inputs, num_inputs, Len(acc)), LAMBDA r :
             Let(Append(acc, [opcode |-> instructions[pc].opcode, stack |-> stack,
                              state |-> r.state, error |-> r.error]),
                 LAMBDA t :
                     IF r.state = "running"
                     THEN VMTrace(instructions, pc + 1, r.stack, inputs, num_inputs, t)
                     ELSE t))

\* VM::execute on the VM object vm: the object afterwards, the returned bool,
\* the value stored through result (if any) and the instructions executed
execute(vm, program, inputs, num_inputs) ==
    LET stack == StackAtEntry(vm.stack_)
    IN  IF CountMismatch(num_inputs, program.num_variables)
        THEN [vm |-> [stack_ |-> stack, error_message_ |-> "Input count mismatch"],
              ok |-> FALSE, result |-> 0, steps |-> 0]
        ELSE Let(VMLoop(program.instructions, 1, stack, inputs, num_inputs, 0), LAMBDA r :
                 [vm |-> [stack_ |-> r.stack, error_message_ |-> r.error],
                  ok |-> r.state = "returned", result |-> r.result, steps |-> r.steps])

\* a gather that reads every point from the first column
PointInputs_FirstColumn(input_arrays, num_variables, i) ==
    [v \in 1..num_variables |-> input_arrays[v][1]]

\* the gather of point i (0-based) out of the structure-of-arrays input
PointInputs(input_arrays, num_variables, i) ==
    [v \in 1..num_variables |-> input_arrays[v][i + 1]]

\* a failing point that stores what its run left behind
Abandoned_Stored(output, i, r) == [output EXCEPT ![i + 1] = r.result]

\* output_array after execute failed on point i: the early return stores nothing
Abandoned(output, i, r) == output

RECURSIVE BatchLoop(_, _, _, _, _, _, _)
\* the loop over the points of VM::execute_batch from point i (0-based) on
BatchLoop(vm, program, input_arrays, num_variables, num_points, i, acc) ==
    IF i >= num_points THEN [vm |-> vm, ok |-> TRUE, output |-> acc.output, steps |-> acc.steps]
    ELSE Let(execute(vm, program, PointInputs(input_arrays, num_variables, i),
                     num_variables),
             LAMBDA r :
                 IF ~r.ok
                 THEN [vm |-> r.vm, ok |-> FALSE, output |-> Abandoned(acc.output, i, r),
                       steps |-> acc.steps + r.steps]
                 ELSE BatchLoop(r.vm, program, input_arrays, num_variables, num_points,
                                i + 1,
                                [output |-> [acc.output EXCEPT ![i + 1] = r.result],
                                 steps |-> acc.steps + r.steps]))

\* VM::execute_batch: output holds Unwritten where output_array was not stored to
execute_batch(vm, program, input_arrays, num_variables, num_points) ==
    LET blank == [k \in 1..num_points |-> Unwritten]
    IN  IF CountMismatch(num_variables, program.num_variables)
        THEN [vm |-> [vm EXCEPT !.error_message_ = "Input count mismatch"],
              ok |-> FALSE, output |-> blank, steps |-> 0]
        ELSE BatchLoop([vm EXCEPT !.error_message_ = ""], program, input_arrays,
                       num_variables, num_points, 0, [output |-> blank, steps |-> 0])

(***************************************************************************)
(* Forward-mode AD over dual numbers (autodiff.h, autodiff.cpp).           *)
(***************************************************************************)
Dual(value, derivative) == [value |-> value, derivative |-> derivative]

DualAdd(a, b) == Dual(FAdd(a.value, b.value), FAdd(a.derivative, b.derivative))
DualSub(a, b) == Dual(FSub(a.value, b.value), FSub(a.derivative, b.derivative))
DualMul(a, b) ==
    Dual(FMul(a.value, b.value),
         FAdd(FMul(a.derivative, b.value), FMul(a.value, b.derivative)))
DualDiv(a, b) ==
    Dual(FDiv(a.value, b.value),
         FDiv(FSub(FMul(a.derivative, b.value), FMul(a.value, b.derivative)),
              FMul(b.value, b.value)))
DualNeg(a) == Dual(FNeg(a.value), FNeg(a.derivative))

dual_sin(x) == Dual(FSin(x.value), FMul(x.derivative, FCos(x.value)))
dual_cos(x) == Dual(FCos(x.value), FMul(FNeg(x.derivative), FSin(x.value)))
dual_tan(x) ==
    Let(FTan(x.value), LAMBDA t : Dual(t, FMul(x.derivative, FAdd(1, FMul(t, t)))))
dual_exp(x) == Let(FExp(x.value), LAMBDA e : Dual(e, FMul(x.derivative, e)))
dual_log(x) == Dual(FLog(x.value), FDiv(x.derivative, x.value))
dual_sqrt(x) == Let(FSqrt(x.value), LAMBDA r : Dual(r, FDiv(x.derivative, FMul(2, r))))
dual_abs(x) ==
    IF FGe(x.value, 0) THEN Dual(x.value, x.derivative)
    ELSE Dual(FNeg(x.value), FNeg(x.derivative))
dual_pow(x, y) ==
    Let(FPow(x.value, y.value), LAMBDA pow_val :
        Dual(pow_val,
             FMul(pow_val,
                  FAdd(FMul(y.derivative, FLog(x.value)),
                       FDiv(FMul(y.value, x.derivative), x.value)))))

DualBinaryResult(opcode, a, b) ==
    CASE opcode = "ADD" -> DualAdd(a, b)
      [] opcode = "SUB" -> DualSub(a, b)
      [] opcode = "MUL" -> DualMul(a, b)
      [] opcode = "DIV" -> DualDiv(a, b)
      [] opcode = "POW" -> dual_pow(a, b)

DualUnaryResult(opcode, a) ==
    CASE opcode = "NEG" -> DualNeg(a)
      [] opcode = "SIN" -> dual_sin(a)
      [] opcode = "COS" -> dual_cos(a)
      [] opcode = "TAN" -> dual_tan(a)
      [] opcode = "EXP" -> dual_exp(a)
      [] opcode = "LOG" -> dual_log(a)
      [] opcode = "SQRT" -> dual_sqrt(a)
      [] opcode = "ABS" -> dual_abs(a)

\* the stack AutoDiff::execute_dual starts from
DualStackAtEntry(stack) == <<>>

\* domain tests that look at the tangent
Primal_Tangent(d) == d.derivative

\* the component the domain tests of execute_dual look at: .value
Primal(d) == d.value

\* one iteration of the instruction loop of AutoDiff::execute_dual
DualStep(inst, stack, inputs, num_inputs, steps) ==
    LET op == inst.opcode IN
    CASE op = "PUSH_CONST" -> Running(Push(stack, Dual(inst.operand, 0)), steps + 1)
      [] op = "LOAD_VAR" ->
            IF inst.operand >= num_inputs
            THEN Halted(stack, "Variable index out of bounds", steps + 1)
            ELSE Running(Push(stack, inputs[inst.operand + 1]), steps + 1)
      [] op \in BinaryOps ->
            IF Len(stack) < 2 THEN Halted(stack, "Stack underflow in " \o op, steps + 1)
            ELSE LET b == Top(stack)
                     a == Top(Pop(stack, 1))
                 IN  IF op = "DIV" /\ DivFails(Primal(b))
                     THEN Halted(Pop(stack, 2), "Division by zero", steps + 1)
                     ELSE Running(Push(Pop(stack, 2), DualBinaryResult(op, a, b)), steps + 1)
      [] op \in UnaryOps ->
            IF Len(stack) = 0 THEN Halted(stack, "Stack underflow in " \o op, steps + 1)
            ELSE IF op = "LOG" /\ LogFails(Primal(Top(stack)))
            THEN Halted(stack, "Logarithm of non-positive number", steps + 1)
            ELSE IF op = "SQRT" /\ SqrtFails(Primal(Top(stack)))
            THEN Halted(stack, "Square root of negative number", steps + 1)
            ELSE Running(Push(Pop(stack, 1), DualUnaryResult(op, Top(stack))), steps + 1)
      [] op = "RETURN" ->
            IF Len(stack) # 1 THEN Halted(stack, "Invalid stack size at return", steps + 1)
            ELSE Returned(stack, Top(stack), steps + 1)

RECURSIVE DualLoop(_, _, _, _, _, _)
DualLoop(instructions, pc, stack, inputs, num_inputs, steps) ==
    IF pc > Len(instructions) THEN Halted(stack, "Missing return instruction", steps)
    ELSE Let(DualStep(instructions[pc], stack, inputs, num_inputs, steps), LAMBDA r :
             IF r.state = "running"
             THEN DualLoop(instructions, pc + 1, r.stack, inputs, num_inputs, r.steps)
             ELSE r)

\* AutoDiff::execute_dual on the AutoDiff object ad; error_message_ is only
\* written on failure
execute_dual(ad, program, inputs, num_inputs) ==
    LET stack == DualStackAtEntry(ad.stack_)
    IN  IF CountMismatch(num_inputs, program.num_variables)
        THEN [ad |-> [stack_ |-> stack, error_message_ |-> "Input count mismatch"],
              ok |-> FALSE, result |-> Dual(0, 0), steps |-> 0]
        ELSE Let(DualLoop(program.instructions, 1, stack, inputs, num_inputs, 0), LAMBDA r :
                 [ad |-> [stack_ |-> r.stack,
                          error_message_ |-> IF r.state = "returned" THEN ad.error_message_
                                             ELSE r.error],
                  ok |-> r.state = "returned",
                  result |-> IF r.state = "returned" THEN r.result ELSE Dual(0, 0),
                  steps |-> r.steps])

\* a seeding that sets every derivative to 1
dual_inputs_AllSeeded(inputs, num_inputs, i) ==
    [j \in 1..num_inputs |-> Dual(inputs[j], 1)]

\* dual_inputs[j] = Dual(inputs[j], (i == j) ? 1.0 : 0.0), i and j 0-based
dual_inputs(inputs, num_inputs, i) ==
    [j \in 1..num_inputs |-> Dual(inputs[j], IF i = j - 1 THEN 1 ELSE 0)]

RECURSIVE ADGradientLoop(_, _, _, _, _, _)
\* the loop over the variables of AutoDiff::compute_gradient from variable i on
ADGradientLoop(ad, program, inputs, num_inputs, i, acc) ==
    IF i >= num_inputs
    THEN [ad |-> ad, ok |-> TRUE, gradient |-> acc.gradient, steps |-> acc.steps]
    ELSE Let(execute_dual(ad, program, dual_inputs(inputs, num_inputs, i), num_inputs),
             LAMBDA r :
                 IF ~r.ok
                 THEN [ad |-> r.ad, ok |-> FALSE, gradient |-> acc.gradient,
                       steps |-> acc.steps + r.steps]
                 ELSE ADGradientLoop(r.ad, program, inputs, num_inputs, i + 1,
                          [gradient |-> [acc.gradient EXCEPT ![i + 1] = r.result.derivative],
                           steps |-> acc.steps + r.steps]))

\* AutoDiff::compute_gradient, storing into the array gradient
ad_compute_gradient(ad, program, inputs, num_inputs, gradient) ==
    IF CountMismatch(num_inputs, program.num_variables)
    THEN [ad |-> [ad EXCEPT !.error_message_ = "Input count mismatch"],
          ok |-> FALSE, gradient |-> gradient, steps |-> 0]
    ELSE ADGradientLoop([ad EXCEPT !.error_message_ = ""], program, inputs, num_inputs, 0,
                        [gradient |-> gradient, steps |-> 0])

\* the hard-coded step of AutoDiff::compute_hessian, in lattice units
ADHessianStep == 1

\* a loop that leaves the shifted coordinate as it is
Restored_Kept(inputs_perturbed, inputs, i) == inputs_perturbed

\* a loop that resets the shifted coordinate to zero
Restored_Zeroed(inputs_perturbed, inputs, i) == [inputs_perturbed EXCEPT ![i + 1] = 0]

\* inputs_perturbed[i] = inputs[i], i 0-based: the shift of coordinate i undone
Restored(inputs_perturbed, inputs, i) == [inputs_perturbed EXCEPT ![i + 1] = inputs[i + 1]]

RECURSIVE ADHessianLoop(_, _, _, _, _, _, _)
\* the loop over the rows of AutoDiff::compute_hessian from row i on; acc
\* carries hessian, grad_perturbed, inputs_perturbed, the instructions
\* executed and the points handed to compute_gradient (passes)
ADHessianLoop(ad, program, inputs, num_inputs, grad_base, i, acc) ==
    IF i >= num_inputs
    THEN [ad |-> ad, ok |-> TRUE, hessian |-> acc.hessian, steps |-> acc.steps,
          passes |-> acc.passes]
    ELSE Let([acc.inputs_perturbed EXCEPT ![i + 1] = FAdd(inputs[i + 1], ADHessianStep)],
             LAMBDA shifted :
         Let(ad_compute_gradient(ad, program, shifted, num_inputs, acc.grad_perturbed),
             LAMBDA g :
                 IF ~g.ok
                 THEN [ad |-> g.ad, ok |-> FALSE, hessian |-> acc.hessian,
                       steps |-> acc.steps + g.steps,
                       passes |-> Append(acc.passes, shifted)]
                 ELSE ADHessianLoop(g.ad, program, inputs, num_inputs, grad_base, i + 1,
                          [hessian |-> [k \in 1..(num_inputs * num_inputs) |->
                                          IF (k - 1) \div num_inputs = i
                                          THEN FDiv(FSub(g.gradient[((k - 1) % num_inputs) + 1],
                                                         grad_base[((k - 1) % num_inputs) + 1]),
                                                    ADHessianStep)
                                          ELSE acc.hessian[k]],
                           grad_perturbed |-> g.gradient,
                           inputs_perturbed |-> Restored(shifted, inputs, i),
                           steps |-> acc.steps + g.steps,
                           passes |-> Append(acc.passes, shifted)])))

\* AutoDiff::compute_hessian, storing into the row-major array hessian
ad_compute_hessian(ad, program, inputs, num_inputs, hessian) ==
    IF CountMismatch(num_inputs, program.num_variables)
    THEN [ad |-> [ad EXCEPT !.error_message_ = "Input count mismatch"],
          ok |-> FALSE, hessian |-> hessian, steps |-> 0, passes |-> <<>>]
    ELSE Let(ad_compute_gradient([ad EXCEPT !.error_message_ = ""], program,
                                 inputs, num_inputs, [j \in 1..num_inputs |-> 0]),
             LAMBDA base :
                 IF ~base.ok
                 THEN [ad |-> base.ad, ok |-> FALSE, hessian |-> hessian,
                       steps |-> base.steps, passes |-> <<inputs>>]
                 ELSE ADHessianLoop(base.ad, program, inputs, num_inputs, base.gradient, 0,
                          [hessian |-> hessian,
                           grad_perturbed |-> [j \in 1..num_inputs |-> 0],
                           inputs_perturbed |-> inputs,
                           steps |-> base.steps, passes |-> <<inputs>>]))

(***************************************************************************)
(* Finite differences (finite_diff.cpp).  Every loop state S carries the   *)
(* FiniteDiff object fd, the VM vm it evaluates with, the output array,    *)
(* the instructions executed (steps) and the points evaluated (points).    *)
(***************************************************************************)
\* vm.execute(program, point, ...) inside a finite-difference loop
FDEval(S, program, point, num_inputs) ==
    Let(execute(S.vm, program, point, num_inputs), LAMBDA r :
        [ok |-> r.ok, value |-> r.result,
         S |-> [S EXCEPT !.vm = r.vm, !.steps = @ + r.steps, !.points = Append(@, point)]])

FDFailed(S, message) ==
    [fd |-> [S.fd EXCEPT !.error_message_ = message \o S.vm.error_message_],
     vm |-> S.vm, ok |-> FALSE, output |-> S.output, steps |-> S.steps, points |-> S.points]
FDDone(S) ==
    [fd |-> S.fd, vm |-> S.vm, ok |-> TRUE, output |-> S.output, steps |-> S.steps,
     points |-> S.points]
FDMismatch(S) ==
    [fd |-> [S.fd EXCEPT !.error_message_ = "Input count mismatch"],
     vm |-> S.vm, ok |-> FALSE, output |-> S.output, steps |-> S.steps, points |-> S.points]

RECURSIVE FDGradientLoop(_, _, _, _, _, _, _)
\* the loop over the variables of FiniteDiff::compute_gradient from variable i on
FDGradientLoop(S, program, inputs, num_inputs, i, inputs_plus, inputs_minus) ==
    IF i >= num_inputs THEN FDDone(S)
    ELSE
    Let([inputs_plus EXCEPT ![i + 1] = FAdd(inputs[i + 1], S.fd.epsilon_)], LAMBDA plus :
    Let(FDEval(S, program, plus, num_inputs), LAMBDA f_plus :
        IF ~f_plus.ok
        THEN FDFailed(f_plus.S, "Failed to evaluate at perturbed point (+): ")
        ELSE
    Let([inputs_minus EXCEPT ![i + 1] = FSub(inputs[i + 1], S.fd.epsilon_)], LAMBDA minus :
    Let(FDEval(f_plus.S, program, minus, num_inputs), LAMBDA f_minus :
        IF ~f_minus.ok
        THEN FDFailed(f_minus.S, "Failed to evaluate at perturbed point (-): ")
        ELSE FDGradientLoop(
                 [f_minus.S EXCEPT !.output[i + 1] =
                     FDiv(FSub(f_plus.value, f_minus.value), FMul(2, S.fd.epsilon_))],
                 program, inputs, num_inputs, i + 1,
                 Restored(plus, inputs, i),
                 Restored(minus, inputs, i))))))

\* the loop state a FiniteDiff call starts from
FDStart(fd, vm, output) ==
    [fd |-> [fd EXCEPT !.error_message_ = ""], vm |-> vm, output |-> output,
     steps |-> 0, points |-> <<>>]

\* FiniteDiff::compute_gradient, storing into the array gradient
fd_compute_gradient(fd, program, vm, inputs, num_inputs, gradient) ==
    IF CountMismatch(num_inputs, program.num_variables)
    THEN FDMismatch(FDStart(fd, vm, gradient))
    ELSE FDGradientLoop(FDStart(fd, vm, gradient), program, inputs, num_inputs, 0,
                        inputs, inputs)

\* a store of the mixed partial into the upper triangle only
StoreMixed_UpperOnly(hessian, i, j, num_inputs, h_ij) ==
    [hessian EXCEPT ![i * num_inputs + j + 1] = h_ij]

\* a store of the mixed partial into the lower triangle only
StoreMixed_LowerOnly(hessian, i, j, num_inputs, h_ij) ==
    [hessian EXCEPT ![j * num_inputs + i + 1] = h_ij]

\* hessian[i * num_inputs + j] = h_ij; hessian[j * num_inputs + i] = h_ij
StoreMixed(hessian, i, j, num_inputs, h_ij) ==
    [hessian EXCEPT ![i * num_inputs + j + 1] = h_ij, ![j * num_inputs + i + 1] = h_ij]

RECURSIVE FDHessianInner(_, _, _, _, _, _, _, _, _)
\* the loop over j > i of FiniteDiff::compute_hessian, from column j on; it
\* hands back the loop state and inputs_perturbed
FDHessianInner(S, program, inputs, num_inputs, i, j, inputs_perturbed, f_base, f_i_plus) ==
    IF j >= num_inputs THEN [ok |-> TRUE, S |-> S, inputs_perturbed |-> inputs_perturbed]
    ELSE
    Let([inputs_perturbed EXCEPT ![i + 1] = FAdd(inputs[i + 1], S.fd.epsilon_),
                                 ![j + 1] = FAdd(inputs[j + 1], S.fd.epsilon_)],
        LAMBDA both :
    Let(FDEval(S, program, both, num_inputs), LAMBDA f_ij :
        IF ~f_ij.ok
        THEN [ok |-> FALSE, S |-> f_ij.S, inputs_perturbed |-> both]
        ELSE
    Let([both EXCEPT ![i + 1] = inputs[i + 1],
                     ![j + 1] = FAdd(inputs[j + 1], S.fd.epsilon_)],
        LAMBDA only_j :
    Let(FDEval(f_ij.S, program, only_j, num_inputs), LAMBDA f_j_plus :
        IF ~f_j_plus.ok
        THEN [ok |-> FALSE, S |-> f_j_plus.S, inputs_perturbed |-> only_j]
        ELSE
    Let(FDiv(FAdd(FSub(FSub(f_ij.value, f_i_plus), f_j_plus.value), f_base),
             FMul(S.fd.epsilon_, S.fd.epsilon_)),
        LAMBDA h_ij :
        FDHessianInner(
            [f_j_plus.S EXCEPT !.output = StoreMixed(@, i, j, num_inputs, h_ij)],
            program, inputs, num_inputs, i, j + 1,
            Restored(only_j, inputs, j),
            f_base, f_i_plus))))))

RECURSIVE FDHessianLoop(_, _, _, _, _, _, _)
\* the loop over the rows of FiniteDiff::compute_hessian from row i on
FDHessianLoop(S, program, inputs, num_inputs, i, inputs_perturbed, f_base) ==
    IF i >= num_inputs THEN FDDone(S)
    ELSE
    Let([inputs_perturbed EXCEPT ![i + 1] = FAdd(inputs[i + 1], S.fd.epsilon_)],
        LAMBDA up :
    Let(FDEval(S, program, up, num_inputs), LAMBDA f_i_plus :
        IF ~f_i_plus.ok
        THEN FDFailed(f_i_plus.S, "Failed to evaluate at perturbed point: ")
        ELSE
    Let([up EXCEPT ![i + 1] = FSub(inputs[i + 1], S.fd.epsilon_)], LAMBDA down :
    Let(FDEval(f_i_plus.S, program, down, num_inputs), LAMBDA f_i_minus :
        IF ~f_i_minus.ok
        THEN FDFailed(f_i_minus.S, "Failed to evaluate at perturbed point: ")
        ELSE
    Let(FDHessianInner(
            [f_i_minus.S EXCEPT !.output[i * num_inputs + i + 1] =
                FDiv(FAdd(FSub(f_i_plus.value, FMul(2, f_base)), f_i_minus.value),
                     FMul(S.fd.epsilon_, S.fd.epsilon_))],
            program, inputs, num_inputs, i, i + 1,
            Restored(down, inputs, i),
            f_base, f_i_plus.value),
        LAMBDA inner :
        IF ~inner.ok
        THEN FDFailed(inner.S, "Failed to evaluate at perturbed point: ")
        ELSE FDHessianLoop(inner.S, program, inputs, num_inputs, i + 1,
                           inner.inputs_perturbed, f_base))))))

\* FiniteDiff::compute_hessian, storing into the row-major array hessian
fd_compute_hessian(fd, program, vm, inputs, num_inputs, hessian) ==
    IF CountMismatch(num_inputs, program.num_variables)
    THEN FDMismatch(FDStart(fd, vm, hessian))
    ELSE Let(FDEval(FDStart(fd, vm, hessian), program, inputs, num_inputs), LAMBDA f_base :
             IF ~f_base.ok
             THEN FDFailed(f_base.S, "Failed to evaluate at base point: ")
             ELSE FDHessianLoop(f_base.S, program, inputs, num_inputs, 0, inputs,
                                f_base.value))

(***************************************************************************)
(* The C API (api.h, api.cpp).                                             *)
(***************************************************************************)
DefaultEpsilon == 1      \* the 1e-8 of the constructors, in lattice units
DefaultMaxDepth == 100   \* Parser::max_depth_

\* a Parser as constructed
NewParser == [tokens_ |-> <<>>, variable_indices_ |-> <<>>, error_message_ |-> "",
              max_depth_ |-> DefaultMaxDepth]

NewContext == [last_error |-> "", ad_mode |-> "AUTO", fd_epsilon |-> DefaultEpsilon]
NoProgram == [live |-> FALSE]
NewVM == [stack_ |-> <<>>, error_message_ |-> ""]
NewAutoDiff == [stack_ |-> <<>>, error_message_ |-> ""]
NewFiniteDiff(epsilon) == [epsilon_ |-> epsilon, error_message_ |-> ""]

\* a program created with the defaults of ndcalc_program_t
NewProgram_Defaults(c, instructions, num_variables) ==
    [live |-> TRUE,
     bytecode |-> [instructions |-> instructions, num_variables |-> num_variables],
     vm |-> NewVM,
     autodiff |-> NewAutoDiff,
     finite_diff |-> NewFiniteDiff(DefaultEpsilon),
     ad_mode |-> "AUTO"]

\* the program ndcalc_compile creates around bytecode
NewProgram(c, instructions, num_variables) ==
    [live |-> TRUE,
     bytecode |-> [instructions |-> instructions, num_variables |-> num_variables],
     vm |-> NewVM,
     autodiff |-> NewAutoDiff,
     finite_diff |-> NewFiniteDiff(c.fd_epsilon),
     ad_mode |-> c.ad_mode]

\* a failure return that leaves last_error as it was
Rejected_Silent(c, ret, message) ==
    [ctx |-> c, ret |-> ret, program |-> NoProgram, written |-> FALSE]

\* a failure return of ndcalc_compile: the message goes to last_error,
\* nothing is stored through out_program
Rejected(c, ret, message) ==
    [ctx |-> [c EXCEPT !.last_error = message], ret |-> ret, program |-> NoProgram,
     written |-> FALSE]

\* a success return that empties last_error
Accepted_Cleared(c) == [c EXCEPT !.last_error = ""]

\* the context after a success return of ndcalc_compile: not assigned to
Accepted(c) == c

\* ndcalc_compile with non-null arguments: the context afterwards, the
\* returned code, the program and whether it was stored through out_program
ndcalc_compile(c, expression, num_variables, variable_names) ==
    Let(parse(NewParser, expression, SubSeq(variable_names, 1, num_variables)), LAMBDA ast :
        IF ~ast.ok
        THEN Rejected(c, "NDCALC_ERROR_PARSE", ast.parser.error_message_)
        ELSE Let(compile(ast.node), LAMBDA bytecode :
                 IF ~bytecode.ok
                 THEN Rejected(c, "NDCALC_ERROR_INVALID_EXPR", bytecode.error)
                 ELSE [ctx |-> Accepted(c), ret |-> "NDCALC_OK",
                       program |-> NewProgram(c, bytecode.instructions, num_variables),
                       written |-> TRUE]))

\* a null test that lets a null array of no names through
MissingArgument_Counted(null, num_variables) ==
    null # "none" /\ ~(null = "variable_names" /\ num_variables = 0)

\* the null test of ndcalc_compile, null naming the argument passed as null:
\* num_variables takes no part in it
MissingArgument(null, num_variables) == null # "none"

\* ndcalc_compile from its first line, null naming the pointer argument the
\* caller passed as null ("none" when there is no such argument)
ndcalc_compile_checked(c, null, expression, num_variables, variable_names) ==
    IF MissingArgument(null, num_variables)
    THEN IF null = "ctx"
         THEN [ctx |-> c, ret |-> "NDCALC_ERROR_NULL_POINTER", program |-> NoProgram,
               written |-> FALSE]
         ELSE Rejected(c, "NDCALC_ERROR_NULL_POINTER", "Null pointer argument")
    ELSE ndcalc_compile(c, expression, num_variables, variable_names)

\* the arguments compile_binding of the WASM bindings hands to ndcalc_compile:
\* an empty list of names goes as a null pointer
compile_binding(c, expression, variables) ==
    ndcalc_compile_checked(c, IF variables = <<>> THEN "variable_names" ELSE "none",
                           expression, Len(variables), variables)

\* ndcalc_get_last_error_message on a context
ndcalc_get_last_error_message(c) == c.last_error

\* a dispatch without the retry of AUTO
EngineOrder_NoRetry(ad_mode) == IF ad_mode = "FINITE_DIFF" THEN <<"FD">> ELSE <<"AD">>

\* which engines a gradient or hessian call tries, in order, under a mode
EngineOrder(ad_mode) ==
    CASE ad_mode = "FORWARD" -> <<"AD">>
      [] ad_mode = "FINITE_DIFF" -> <<"FD">>
      [] OTHER -> <<"AD", "FD">>

\* what an AutoDiff run did to the program p
AfterAD(p, r, output, passes) ==
    [program |-> [p EXCEPT !.autodiff = r.ad], ok |-> r.ok, output |-> output,
     steps |-> r.steps, points |-> <<>>, passes |-> passes]
\* what a FiniteDiff run did to the program p
AfterFD(p, r) ==
    [program |-> [p EXCEPT !.finite_diff = r.fd, !.vm = r.vm], ok |-> r.ok,
     output |-> r.output, steps |-> r.steps, points |-> r.points, passes |-> <<>>]

\* one engine run of a gradient (kind = "gradient") or hessian call on the
\* program p: p afterwards, the engine's bool, the output array afterwards
RunEngine(kind, engine, p, inputs, num_inputs, output) ==
    CASE engine = "AD" /\ kind = "gradient" ->
            Let(ad_compute_gradient(p.autodiff, p.bytecode, inputs, num_inputs, output),
                LAMBDA r : AfterAD(p, r, r.gradient, <<inputs>>))
      [] engine = "AD" /\ kind = "hessian" ->
            Let(ad_compute_hessian(p.autodiff, p.bytecode, inputs, num_inputs, output),
                LAMBDA r : AfterAD(p, r, r.hessian, r.passes))
      [] engine = "FD" /\ kind = "gradient" ->
            AfterFD(p, fd_compute_gradient(p.finite_diff, p.bytecode, p.vm, inputs,
                                           num_inputs, output))
      [] engine = "FD" /\ kind = "hessian" ->
            AfterFD(p, fd_compute_hessian(p.finite_diff, p.bytecode, p.vm, inputs,
                                          num_inputs, output))

\* what a call has done once the engine run r is over
Ran(acc, engine, r) ==
    [output |-> r.output,
     engines |-> Append(acc.engines, [engine |-> engine, ok |-> r.ok]),
     steps |-> acc.steps + r.steps,
     points |-> acc.points \o r.points,
     passes |-> acc.passes \o r.passes]

\* what ndcalc_gradient / ndcalc_hessian hands back
Returning(p, ret, acc) ==
    [program |-> p, ret |-> ret, output |-> acc.output, engines |-> acc.engines,
     steps |-> acc.steps, points |-> acc.points, passes |-> acc.passes]

RECURSIVE Dispatch(_, _, _, _, _, _, _)
\* the switch of ndcalc_gradient / ndcalc_hessian: the engines of order are
\* tried from the k-th on until one succeeds
Dispatch(kind, order, k, p, inputs, num_inputs, acc) ==
    IF k > Len(order) THEN Returning(p, "NDCALC_ERROR_EVAL", acc)
    ELSE Let(RunEngine(kind, order[k], p, inputs, num_inputs, acc.output), LAMBDA r :
             IF r.ok
             THEN Returning(r.program, "NDCALC_OK", Ran(acc, order[k], r))
             ELSE Dispatch(kind, order, k + 1, r.program, inputs, num_inputs,
                           Ran(acc, order[k], r)))

\* ndcalc_gradient and ndcalc_hessian with non-null arguments; the caller's
\* output array holds size slots
ndcalc_derivative(kind, p, inputs, num_inputs, size) ==
    Dispatch(kind, EngineOrder(p.ad_mode), 1, p, inputs, num_inputs,
             [output |-> [k \in 1..size |-> Unwritten], engines |-> <<>>, steps |-> 0,
              points |-> <<>>, passes |-> <<>>])

(***************************************************************************)
(* The caller of the C API: one context, one program handle.  Each call    *)
(* is one action; its arguments and everything it returned are kept in     *)
(* last.                                                                   *)
(***************************************************************************)
InputMax == 1
MaxInputs == 2
InputVals == 0..InputMax
AdModes == {"AUTO", "FORWARD", "FINITE_DIFF"}
Epsilons == {DefaultEpsilon, DefaultEpsilon + 1}

\* the expressions the caller compiles, with their variable names
Catalogue ==
    << [expression |-> <<"1", " ", "/", " ", "x">>, variable_names |-> << <<"x">> >>],
       [expression |-> <<"l", "o", "g", "(", "x", ")">>, variable_names |-> << <<"x">> >>] >>

InputVectors == UNION {[1..n -> InputVals] : n \in 0..MaxInputs}
BatchInputs == UNION {[1..v -> [1..n -> InputVals]] : v \in 0..MaxInputs, n \in 1..MaxPoints}

Call(op, null, ret) ==
    [op |-> op, null |-> null, ret |-> ret, arg |-> "", inputs |-> <<>>, num_inputs |-> 0,
     num_points |-> 0, output |-> <<>>, engines |-> <<>>, steps |-> 0, points |-> <<>>,
     written |-> FALSE, passes |-> <<>>, num_variables |-> 0]
NoCall == Call("none", "none", "NDCALC_OK")
RetOf(ok) == IF ok THEN "NDCALC_OK" ELSE "NDCALC_ERROR_EVAL"

\* the VM objects that run at the same time
NumEvaluators == 2
\* a VM as constructed, not inside a call
IdleEvaluator ==
    [vm |-> NewVM, phase |-> "idle", pc |-> 0, inputs |-> <<>>, ok |-> FALSE, result |-> 0,
     interleaved |-> FALSE]

\* the pointer arguments a caller may pass as null
NullChoices(args) == IF handle.live THEN {"none"} \cup args ELSE {"program"}

\* a call that stops at its null-pointer test
NullCall(op, null, size) ==
    /\ last' = [Call(op, null, "NDCALC_ERROR_NULL_POINTER")
                   EXCEPT !.output = [k \in 1..size |-> Unwritten]]
    /\ UNCHANGED handle

Init ==
    /\ parser = NewParser
    /\ parse_in = <<>>
    /\ parse_out = [called |-> FALSE]
    /\ ctx = NewContext
    /\ handle = NoProgram
    /\ last = NoCall
    /\ evaluators = [t \in 1..NumEvaluators |-> IdleEvaluator]

\* the caller's state after ndcalc_compile handed back r
Compiled(expression, r) ==
    /\ ctx' = r.ctx
    /\ handle' = IF r.written THEN r.program ELSE handle
    /\ last' = [Call("compile", "none", r.ret) EXCEPT !.arg = expression,
                                                     !.written = r.written]

\* ndcalc_compile of an entry of catalogue into the caller's free handle
CompileFrom(catalogue) ==
    /\ ~handle.live
    /\ \E k \in 1..Len(catalogue) :
         Compiled(catalogue[k].expression,
                  ndcalc_compile(ctx, catalogue[k].expression,
                                 Len(catalogue[k].variable_names),
                                 catalogue[k].variable_names))
    /\ UNCHANGED <<parser, parse_in, parse_out, evaluators>>

Compile == CompileFrom(Catalogue)

Destroy ==
    /\ handle.live
    /\ handle' = NoProgram
    /\ last' = Call("destroy", "none", "NDCALC_OK")
    /\ UNCHANGED <<parser, parse_in, parse_out, ctx, evaluators>>

SetAdMode ==
    /\ \E mode \in AdModes :
         /\ ctx' = [ctx EXCEPT !.ad_mode = mode]
         /\ last' = [Call("set_ad_mode", "none", "NDCALC_OK") EXCEPT !.arg = mode]
    /\ UNCHANGED <<parser, parse_in, parse_out, handle, evaluators>>

SetFdEpsilon ==
    /\ \E epsilon \in Epsilons :
         /\ ctx' = [ctx EXCEPT !.fd_epsilon = epsilon]
         /\ last' = [Call("set_fd_epsilon", "none", "NDCALC_OK") EXCEPT !.arg = epsilon]
    /\ UNCHANGED <<parser, parse_in, parse_out, handle, evaluators>>

\* the caller's state after VM::execute handed back r to ndcalc_eval
Evaluated(inputs, r) ==
    /\ handle' = [handle EXCEPT !.vm = r.vm]
    /\ last' = [Call("eval", "none", RetOf(r.ok))
                   EXCEPT !.inputs = inputs, !.num_inputs = Len(inputs),
                          !.output = <<IF r.ok THEN r.result ELSE Unwritten>>,
                          !.engines = <<[engine |-> "VM", ok |-> r.ok]>>,
                          !.steps = r.steps]

\* ndcalc_eval with an input vector of vectors
EvalOn(vectors) ==
    /\ \E inputs \in vectors, null \in NullChoices({"program", "inputs", "output"}) :
         IF null # "none"
         THEN inputs = <<>> /\ NullCall("eval", null, 1)
         ELSE Evaluated(inputs, execute(handle.vm, handle.bytecode, inputs, Len(inputs)))
    /\ UNCHANGED <<parser, parse_in, parse_out, ctx, evaluators>>

Eval == EvalOn(InputVectors)

\* the caller's state after VM::execute_batch handed back r to ndcalc_eval_batch
BatchEvaluated(arrays, num_points, r) ==
    /\ handle' = [handle EXCEPT !.vm = r.vm]
    /\ last' = [Call("eval_batch", "none", RetOf(r.ok))
                   EXCEPT !.inputs = arrays, !.num_inputs = Len(arrays),
                          !.num_points = num_points, !.output = r.output,
                          !.engines = <<[engine |-> "VM", ok |-> r.ok]>>,
                          !.steps = r.steps]

\* the points of a batch (one when there is no array to tell)
NumPoints(arrays) == IF arrays = <<>> THEN 1 ELSE Len(arrays[1])

\* ndcalc_eval_batch with the arrays of batches
EvalBatchOn(batches) ==
    /\ \E arrays \in batches, null \in NullChoices({"program", "inputs", "output"}) :
         IF null # "none"
         THEN arrays = <<>> /\ NullCall("eval_batch", null, 1)
         ELSE BatchEvaluated(arrays, NumPoints(arrays),
                             execute_batch(handle.vm, handle.bytecode, arrays, Len(arrays),
                                           NumPoints(arrays)))
    /\ UNCHANGED <<parser, parse_in, parse_out, ctx, evaluators>>

EvalBatch == EvalBatchOn(BatchInputs)

\* the caller's state after ndcalc_gradient / ndcalc_hessian handed back r
Differentiated(kind, inputs, r) ==
    /\ handle' = r.program
    /\ last' = [Call(kind, "none", r.ret)
                   EXCEPT !.inputs = inputs, !.num_inputs = Len(inputs),
                          !.output = r.output, !.engines = r.engines,
                          !.steps = r.steps, !.points = r.points,
                          !.passes = r.passes]

\* ndcalc_gradient (kind = "gradient") and ndcalc_hessian (kind = "hessian")
Derivative(kind) ==
    /\ \E inputs \in InputVectors, null \in NullChoices({"program", "inputs", "output"}) :
         IF null # "none"
         THEN inputs = <<>> /\ NullCall(kind, null, 1)
         ELSE Differentiated(kind, inputs,
                  ndcalc_derivative(kind, handle, inputs, Len(inputs),
                                    IF kind = "gradient" THEN Len(inputs)
                                    ELSE Len(inputs) * Len(inputs)))
    /\ UNCHANGED <<parser, parse_in, parse_out, ctx, evaluators>>

Gradient == Derivative("gradient")
Hessian == Derivative("hessian")

\* a caller that compiles under a mode of its choice and evaluates
Next ==
    \/ Compile
    \/ Destroy
    \/ SetAdMode
    \/ Eval
    \/ EvalBatch
    \/ Gradient
    \/ Hessian

Spec == Init /\ [][Next]_vars

\* a caller that configures mode and epsilon and takes derivatives
NextConfig ==
    \/ Compile
    \/ Destroy
    \/ SetAdMode
    \/ SetFdEpsilon
    \/ Gradient
    \/ Hessian

SpecConfig == Init /\ [][NextConfig]_vars

(***************************************************************************)
(* Properties of the C API.                                                *)
(***************************************************************************)
DerivativeCall == last.op \in {"gradient", "hessian"} /\ last.null = "none"
EvaluationCall == last.op \in {"eval", "eval_batch", "gradient", "hessian"} /\ last.null = "none"

\* C1: a gradient or hessian call runs the engines its program's mode
\* prescribes: FORWARD runs AD alone and returns its outcome, FINITE_DIFF runs
\* FD alone and returns its outcome, AUTO runs AD first, runs FD exactly when
\* AD failed, and then returns FD's outcome.
C1_ModeDispatch ==
    DerivativeCall =>
        LET e == last.engines IN
        CASE handle.ad_mode = "FORWARD" ->
                 /\ Len(e) = 1 /\ e[1].engine = "AD" /\ last.ret = RetOf(e[1].ok)
          [] handle.ad_mode = "FINITE_DIFF" ->
                 /\ Len(e) = 1 /\ e[1].engine = "FD" /\ last.ret = RetOf(e[1].ok)
          [] handle.ad_mode = "AUTO" ->
                 /\ Len(e) \in {1, 2} /\ e[1].engine = "AD"
                 /\ (Len(e) = 2) <=> ~e[1].ok
                 /\ Len(e) = 1 => last.ret = "NDCALC_OK"
                 /\ Len(e) = 2 => e[2].engine = "FD" /\ last.ret = RetOf(e[2].ok)

\* an AUTO call whose AD run failed and whose FD retry succeeded
C1_Witness ==
    /\ DerivativeCall /\ handle.ad_mode = "AUTO" /\ Len(last.engines) = 2
    /\ ~last.engines[1].ok /\ last.engines[2].ok /\ last.ret = "NDCALC_OK"

\* the stencil points of an FD run lie epsilon away from the inputs
StencilUses(epsilon) ==
    \A k \in 1..Len(last.points) : \A i \in 1..last.num_inputs :
        last.points[k][i] - last.inputs[i] \in {0 - epsilon, 0, epsilon}

\* C2: a gradient or hessian call uses the mode and the epsilon that the
\* set-mode and set-epsilon operations configured last, also when they were
\* called after the program was compiled.
C2_SettersReachProgram ==
    (DerivativeCall /\ last.engines # <<>>) =>
        /\ last.engines[1].engine = EngineOrder(ctx.ad_mode)[1]
        /\ StencilUses(ctx.fd_epsilon)

\* C3: with an input count different from the program's variable count,
\* evaluate, evaluate_batch, gradient and hessian (non-null arguments, any
\* mode) return the evaluation error, execute no instruction and store
\* nothing.
C3_DimensionMismatch ==
    EvaluationCall /\ last.num_inputs # handle.bytecode.num_variables =>
        /\ last.ret = "NDCALC_ERROR_EVAL"
        /\ last.steps = 0
        /\ \A k \in DOMAIN last.output : last.output[k] = Unwritten

\* a FINITE_DIFF hessian call with one input too many
C3_Witness ==
    /\ last.op = "hessian" /\ last.null = "none" /\ handle.ad_mode = "FINITE_DIFF"
    /\ last.num_inputs > handle.bytecode.num_variables
    /\ last.ret = "NDCALC_ERROR_EVAL"

\* C6: an evaluate call returns what the program returns on a VM that was
\* never used, whatever calls were made on the handle before.
C6_HistoryFree ==
    last.op = "eval" /\ last.null = "none" =>
        LET fresh == execute(NewVM, handle.bytecode, last.inputs, last.num_inputs)
        IN  /\ last.ret = RetOf(fresh.ok)
            /\ last.output = <<IF fresh.ok THEN fresh.result ELSE Unwritten>>
            /\ handle.vm.error_message_ = fresh.vm.error_message_

\* a successful evaluate on a handle whose AD and FD engines both failed before
C6_Witness ==
    /\ last.op = "eval" /\ last.null = "none" /\ last.ret = "NDCALC_OK"
    /\ handle.autodiff.error_message_ # ""
    /\ handle.finite_diff.error_message_ # ""

(***************************************************************************)
(* Evaluation alone, over a wider range of inputs: programs that divide,   *)
(* take logarithms and square roots, evaluated at negative, zero and       *)
(* positive arguments.                                                     *)
(***************************************************************************)
WideMax == 2
WideVals == (0 - WideMax)..WideMax
WideVectors == UNION {[1..n -> WideVals] : n \in 0..MaxInputs}
WideBatches ==
    UNION {[1..v -> [1..n -> (0 - InputMax)..InputMax]] : v \in 0..MaxInputs, n \in 1..MaxPoints}

\* batches long enough to have a point before and a point after a failing one
LongPoints == 3
LongBatches == UNION {[1..v -> [1..LongPoints -> {0, 1}]] : v \in 0..MaxInputs}

EvalCatalogue ==
    << [expression |-> <<"x", " ", "/", " ", "y">>, variable_names |-> << <<"x">>, <<"y">> >>],
       [expression |-> <<"l", "o", "g", "(", "x", ")">>, variable_names |-> << <<"x">> >>],
       [expression |-> <<"s", "q", "r", "t", "(", "x", ")">>, variable_names |-> << <<"x">> >>],
       [expression |-> <<"s", "q", "r", "t", "(", "x", ")", "/", "l", "o", "g", "(", "y", ")">>,
        variable_names |-> << <<"x">>, <<"y">> >>] >>

CompileEval == CompileFrom(EvalCatalogue)
EvalWide == EvalOn(WideVectors)
EvalBatchWide == EvalBatchOn(WideBatches \cup LongBatches)

NextEval ==
    \/ CompileEval
    \/ Destroy
    \/ EvalWide
    \/ EvalBatchWide

SpecEval == Init /\ [][NextEval]_vars

(***************************************************************************)
(* Properties of evaluation.                                               *)
(***************************************************************************)
\* an evaluate call that got past the null and input-count tests
ScalarRun ==
    /\ last.op = "eval" /\ last.null = "none"
    /\ last.num_inputs = handle.bytecode.num_variables

\* the operand on top of the stack an iteration found
Operand(e) == e.stack[Len(e.stack)]

\* an iteration that met a domain violation, and the error it has to raise
DomainViolation(e) ==
    /\ e.stack # <<>>
    /\ \/ e.opcode = "DIV" /\ Len(e.stack) >= 2 /\ Operand(e) = 0
       \/ e.opcode = "LOG" /\ Operand(e) <= 0
       \/ e.opcode = "SQRT" /\ Operand(e) < 0

DomainMessage(e) ==
    CASE e.opcode = "DIV" -> "Division by zero"
      [] e.opcode = "LOG" -> "Logarithm of non-positive number"
      [] e.opcode = "SQRT" -> "Square root of negative number"

\* the check of C4 on the iterations t of the last evaluate call
DomainErrorsOn(t) ==
    /\ \A k \in 1..Len(t) :
         /\ (t[k].state = "failed") <=> DomainViolation(t[k])
         /\ DomainViolation(t[k]) => t[k].error = DomainMessage(t[k])
    /\ (last.ret = "NDCALC_ERROR_EVAL") <=> DomainViolation(t[Len(t)])
    /\ (last.ret = "NDCALC_ERROR_EVAL") =>
           /\ last.output = <<Unwritten>>
           /\ handle.vm.error_message_ = DomainMessage(t[Len(t)])
    /\ (last.ret # "NDCALC_ERROR_EVAL") =>
           /\ last.ret = "NDCALC_OK"
           /\ last.output # <<Unwritten>>

\* C4: an evaluate call with the right input count fails, with the evaluation
\* error and no result stored, exactly when an instruction it executes is a
\* DIV with divisor zero, a LOG with operand zero or negative or a SQRT with
\* negative operand; every other DIV, LOG and SQRT it executes goes through.
C4_DomainErrors ==
    ScalarRun =>
        DomainErrorsOn(VMTrace(handle.bytecode.instructions, 1, <<>>, last.inputs,
                               last.num_inputs, <<>>))

\* log(x) evaluated at exactly zero
C4_Witness ==
    /\ ScalarRun /\ last.inputs = <<0>>
    /\ last.ret = "NDCALC_ERROR_EVAL"
    /\ handle.vm.error_message_ = "Logarithm of non-positive number"

\* an evaluate_batch call that got past the null and input-count tests
BatchRun ==
    /\ last.op = "eval_batch" /\ last.null = "none"
    /\ last.num_inputs = handle.bytecode.num_variables

\* what a scalar evaluate call, on a VM of its own, stores for point k (1-based)
ScalarOutcome(k) ==
    Let(execute(NewVM, handle.bytecode,
                [v \in 1..last.num_inputs |-> last.inputs[v][k]], last.num_inputs),
        LAMBDA r : IF r.ok THEN r.result ELSE Unwritten)

\* the points of the last batch on which scalar evaluation fails
FailingPoints == {k \in 1..last.num_points : ScalarOutcome(k) = Unwritten}

\* C5 as stated: every point of a batch holds what scalar evaluation of that
\* point produces.
C5_BatchEqualsScalars ==
    BatchRun => \A k \in 1..last.num_points : last.output[k] = ScalarOutcome(k)

\* C5 amended: a batch call succeeds exactly when scalar evaluation succeeds
\* on every point; every point before the first failing one holds what scalar
\* evaluation of it produces, and from the first failing point on nothing is
\* stored.
C5_BatchUpToFirstFailure ==
    BatchRun =>
        /\ (last.ret = "NDCALC_OK") <=> (FailingPoints = {})
        /\ \A k \in 1..last.num_points :
             last.output[k] = IF \E j \in FailingPoints : j <= k
                              THEN Unwritten
                              ELSE ScalarOutcome(k)

\* a batch of two points that differ, the first stored, the second failing
C5_Witness ==
    /\ BatchRun /\ last.num_points = 2
    /\ last.ret = "NDCALC_ERROR_EVAL"
    /\ last.output[1] # Unwritten /\ last.output[2] = Unwritten

\* a scalar evaluate call, on a VM of its own, of point k (1-based)
ScalarPoint(k) ==
    execute(NewVM, handle.bytecode,
            [v \in 1..last.num_inputs |-> last.inputs[v][k]], last.num_inputs)

RECURSIVE StepsThrough(_)
\* the instructions scalar evaluation executes on the points 1..k
StepsThrough(k) == IF k = 0 THEN 0 ELSE StepsThrough(k - 1) + ScalarPoint(k).steps

\* the batch stopped at point k (1-based): none before it fails, it fails
StoppedAt(k) ==
    /\ ~ScalarPoint(k).ok
    /\ \A j \in 1..(k - 1) : ScalarPoint(j).ok
    /\ handle.vm.error_message_ = ScalarPoint(k).vm.error_message_
    /\ \A j \in 1..(k - 1) : last.output[j] = ScalarPoint(j).result
    /\ \A j \in k..last.num_points : last.output[j] = Unwritten
    /\ last.steps = StepsThrough(k)

\* C27: a batch evaluation that fails returns the evaluation error; there is
\* a first failing point k whose error the VM carries, the outputs before k
\* hold their scalar results, the outputs from k on are left unwritten, and
\* the instructions executed are those of the points up to k and no more.
C27_BatchStopsAtFirstFailure ==
    (BatchRun /\ last.ret # "NDCALC_OK") =>
        /\ last.ret = "NDCALC_ERROR_EVAL"
        /\ \E k \in 1..last.num_points : StoppedAt(k)

\* three points, the second failing with a division by zero, the third not
\* failing on its own
C27_Witness ==
    /\ BatchRun /\ last.num_points = 3
    /\ last.ret = "NDCALC_ERROR_EVAL"
    /\ handle.vm.error_message_ = "Division by zero"
    /\ last.output[1] # Unwritten /\ last.output[2] = Unwritten
    /\ ScalarPoint(3).ok

(***************************************************************************)
(* The parser on its own: a caller constructs a Parser, may lower its      *)
(* depth limit, parses one expression and drops the Parser.                *)
(***************************************************************************)
TestMaxDepth == 10

\* the lexemes the caller writes expressions from, and the characters it
\* writes number-like text from
Lexemes == {<<"x">>, <<"2">>, <<"+">>, <<"-">>, <<"*">>, <<"/">>, <<"^">>, <<"(">>, <<")">>}
CallLexemes == {<<"x">>, <<",">>, <<"(">>, <<")">>, <<"-">>}
CallHeads == {<<"s", "i", "n", "(">>, <<"p", "o", "w", "(">>}
Chars == {"1", "e", "E", "+", "-", ".", "x"}
ParseVariables == << <<"x">> >>

SeqsUpTo(S, n) == UNION {[1..k -> S] : k \in 0..n}

RECURSIVE Join(_)
\* the lexemes written out with one space between neighbours
Join(lexemes) ==
    IF lexemes = <<>> THEN <<>>
    ELSE IF Len(lexemes) = 1 THEN lexemes[1]
    ELSE lexemes[1] \o <<" ">> \o Join(Tail(lexemes))

LexemeInputs == {Join(l) : l \in SeqsUpTo(Lexemes, MaxLexemes)}
CallInputs == {h \o Join(l) : h \in CallHeads, l \in SeqsUpTo(CallLexemes, MaxLexemes - 1)}
CharInputs == SeqsUpTo(Chars, MaxExprLen)
ParseInputs == LexemeInputs \cup CallInputs \cup CharInputs

\* the caller's state after Parser::parse handed back r
Parsed(expression, r) ==
    /\ parser' = r.parser
    /\ parse_in' = [expression |-> expression, variables |-> ParseVariables]
    /\ parse_out' = [called |-> TRUE, ok |-> r.ok, node |-> r.node, pos |-> r.pos,
                     matched |-> r.matched, deepest |-> r.deepest, entered |-> r.entered]

\* Parser::parse on the caller's Parser
Parse ==
    /\ ~parse_out.called
    /\ \E expression \in ParseInputs : Parsed(expression, parse(parser, expression, ParseVariables))
    /\ UNCHANGED <<ctx, handle, last, evaluators>>

\* pairs of parentheses the caller nests an atom in
MaxNesting == 4

RECURSIVE Nested(_, _)
\* atom in k pairs of parentheses
Nested(k, atom) == IF k = 0 THEN atom ELSE <<"(">> \o Nested(k - 1, atom) \o <<")">>

\* Parser::parse of an atom in parentheses on the caller's Parser
ParseNested ==
    /\ ~parse_out.called
    /\ \E k \in 0..MaxNesting, atom \in {<<"x">>, <<"2">>} :
         Parsed(Nested(k, atom), parse(parser, Nested(k, atom), ParseVariables))
    /\ UNCHANGED <<ctx, handle, last, evaluators>>

\* Parser::set_max_depth, as the depth-limit test calls it on a new Parser
SetMaxDepth ==
    /\ ~parse_out.called
    /\ parser.max_depth_ = DefaultMaxDepth
    /\ parser' = [parser EXCEPT !.max_depth_ = TestMaxDepth]
    /\ UNCHANGED <<parse_in, parse_out, ctx, handle, last, evaluators>>

\* the Parser goes out of scope and the caller constructs the next one
Discard ==
    /\ parse_out.called
    /\ parser' = NewParser
    /\ parse_in' = <<>>
    /\ parse_out' = [called |-> FALSE]
    /\ UNCHANGED <<ctx, handle, last, evaluators>>

NextParse ==
    \/ SetMaxDepth
    \/ Parse
    \/ ParseNested
    \/ Discard

SpecParse == Init /\ [][NextParse]_vars

(***************************************************************************)
(* Properties of the parser.                                               *)
(***************************************************************************)
\* a parse that got past tokenize
ParseRun == parse_out.called /\ parser.tokens_ # <<>>

\* the token at position i (0-based) of the last parse, and the position of END
Tk(i) == parser.tokens_[i + 1]
EndPos == Len(parser.tokens_) - 1
OpAt(i, ops) == Tk(i).type = "OPERATOR" /\ Tk(i).value \in ops

\* The grammar as a relation between a tree T and the tokens i .. j-1:
\*   expression := term (('+' | '-') term)*        left-associative
\*   term       := factor (('*' | '/') factor)*    left-associative
\*   factor     := primary ('^' factor)?           right-associative
\*   primary    := '-' primary | '+' primary | NUMBER | VARIABLE
\*               | FUNCTION '(' (expression (',' expression)*)? ')'
\*               | '(' expression ')'
RECURSIVE IsExpr(_, _, _)
RECURSIVE IsTerm(_, _, _)
RECURSIVE IsFactor(_, _, _)
RECURSIVE IsPrimary(_, _, _)
RECURSIVE IsArgs(_, _, _)

IsBinary(T, ops) == T.type = "BINARY_OP" /\ Len(T.children) = 2 /\ T.value \in ops

IsExpr(T, i, j) ==
    \/ IsTerm(T, i, j)
    \/ /\ IsBinary(T, {<<"+">>, <<"-">>})
       /\ \E k \in (i + 1)..(j - 2) :
            /\ OpAt(k, {T.value})
            /\ IsExpr(T.children[1], i, k)
            /\ IsTerm(T.children[2], k + 1, j)

IsTerm(T, i, j) ==
    \/ IsFactor(T, i, j)
    \/ /\ IsBinary(T, {<<"*">>, <<"/">>})
       /\ \E k \in (i + 1)..(j - 2) :
            /\ OpAt(k, {T.value})
            /\ IsTerm(T.children[1], i, k)
            /\ IsFactor(T.children[2], k + 1, j)

IsFactor(T, i, j) ==
    \/ IsPrimary(T, i, j)
    \/ /\ IsBinary(T, {<<"^">>})
       /\ \E k \in (i + 1)..(j - 2) :
            /\ OpAt(k, {<<"^">>})
            /\ IsPrimary(T.children[1], i, k)
            /\ IsFactor(T.children[2], k + 1, j)

IsPrimary(T, i, j) ==
    /\ i < j
    /\ \/ /\ OpAt(i, {<<"-">>})
          /\ T.type = "UNARY_OP" /\ T.value = <<"-">> /\ Len(T.children) = 1
          /\ IsPrimary(T.children[1], i + 1, j)
       \/ /\ OpAt(i, {<<"+">>})
          /\ IsPrimary(T, i + 1, j)
       \/ /\ j = i + 1 /\ Tk(i).type = "NUMBER"
          /\ T = Node("NUMBER", Tk(i).value, <<>>)
       \/ /\ j = i + 1 /\ Tk(i).type = "VARIABLE"
          /\ Tk(i).value \in DOMAIN parser.variable_indices_
          /\ T = Node("VARIABLE", to_string(parser.variable_indices_[Tk(i).value]), <<>>)
       \/ /\ j >= i + 3 /\ Tk(i).type = "FUNCTION"
          /\ Tk(i + 1).type = "LPAREN" /\ Tk(j - 1).type = "RPAREN"
          /\ T.type = "FUNCTION_CALL" /\ T.value = Tk(i).value
          /\ IsArgs(T.children, i + 2, j - 1)
       \/ /\ j >= i + 3 /\ Tk(i).type = "LPAREN" /\ Tk(j - 1).type = "RPAREN"
          /\ IsExpr(T, i + 1, j - 1)

IsArgs(args, i, j) ==
    \/ args = <<>> /\ i = j
    \/ Len(args) = 1 /\ IsExpr(args[1], i, j)
    \/ /\ Len(args) >= 2
       /\ \E k \in (i + 1)..(j - 2) :
            /\ Tk(k).type = "COMMA"
            /\ IsExpr(args[1], i, k)
            /\ IsArgs(Tail(args), k + 1, j)

\* C7: the AST of an accepted expression is the tree the grammar derives from
\* all its tokens: '+'/'-' and '*'/'/' chains associate to the left, '^' to
\* the right, '^' binds tighter than '*'/'/', these tighter than '+'/'-', and a
\* unary sign takes a primary, so that -a^b is (-a)^b.
C7_GrammarTree ==
    (parse_out.called /\ parse_out.ok) => IsExpr(parse_out.node, 0, EndPos)

\* - x ^ 2 parsed as (-x) ^ 2
C7_Witness ==
    /\ parse_out.called /\ parse_out.ok
    /\ parse_in.expression = <<"-", " ", "x", " ", "^", " ", "2">>
    /\ parse_out.node =
         Node("BINARY_OP", <<"^">>,
              <<Node("UNARY_OP", <<"-">>, <<Node("VARIABLE", <<"0">>, <<>>)>>),
                Node("NUMBER", <<"2">>, <<>>)>>)

\* a sign character of the expression that does not follow an exponent marker
LoneSign(i) ==
    /\ parse_in.expression[i + 1] \in {"+", "-"}
    /\ ~(i > 0 /\ parse_in.expression[i] \in {"e", "E"})

\* C8: every '+' or '-' of the expression that does not directly follow an
\* 'e' or 'E' is a token of its own, of type OPERATOR.
C8_SignOnlyAfterExponent ==
    ParseRun =>
        \A i \in 0..(Len(parse_in.expression) - 1) :
            LoneSign(i) =>
                \E k \in 0..EndPos :
                    /\ Tk(k).type = "OPERATOR"
                    /\ Tk(k).position = i
                    /\ Tk(k).value = <<parse_in.expression[i + 1]>>

\* C9: no grammar rule runs at a depth of max_depth or more, none is invoked
\* beyond max_depth, and a parse in which a rule was invoked at max_depth fails
\* with the depth-limit error.
C9_DepthLimit ==
    ParseRun =>
        /\ parse_out.entered < parser.max_depth_
        /\ parse_out.deepest <= parser.max_depth_
        /\ (parse_out.deepest >= parser.max_depth_) =>
               /\ ~parse_out.ok
               /\ parse_out.node = NullNode
               /\ parser.error_message_ = DepthError

\* a parse under the lowered limit that invoked a rule at the limit
C9_Witness ==
    /\ ParseRun /\ parser.max_depth_ = TestMaxDepth
    /\ parse_out.deepest = TestMaxDepth /\ parse_out.entered = TestMaxDepth - 1
    /\ ~parse_out.ok /\ parser.error_message_ = DepthError

\* C10: a parse that hands back an AST stopped at the END token, and a parse
\* whose expression rule matched but stopped before END hands back no AST and
\* reports an error.
C10_StopsAtEnd ==
    parse_out.called =>
        /\ parse_out.ok => (parser.tokens_ # <<>> /\ parse_out.pos = EndPos
                            /\ Tk(parse_out.pos).type = "END")
        /\ (parse_out.matched /\ Tk(parse_out.pos).type # "END") =>
               /\ ~parse_out.ok
               /\ parse_out.node = NullNode
               /\ parser.error_message_ = "Unexpected tokens after expression"

\* x followed by a second operand
C10_Witness ==
    /\ parse_out.called /\ parse_out.matched /\ ~parse_out.ok
    /\ parse_out.pos < EndPos
    /\ parser.error_message_ = "Unexpected tokens after expression"

(***************************************************************************)
(* Compiling through the C API: a caller compiles expressions of one       *)
(* variable, well-formed or not, and evaluates what it got.                *)
(***************************************************************************)
CompileInputs ==
    CallInputs \cup {Join(l) : l \in SeqsUpTo(Lexemes, MaxLexemes - 2)} \cup CharInputs

\* ndcalc_compile of a text of CompileInputs into the caller's free handle,
\* on a context that has reported no error yet
CompileText ==
    /\ ~handle.live
    /\ ctx.last_error = ""
    /\ \E expression \in CompileInputs :
         Compiled(expression, ndcalc_compile(ctx, expression, Len(ParseVariables),
                                             ParseVariables))
    /\ UNCHANGED <<parser, parse_in, parse_out, evaluators>>

\* ndcalc_context_destroy and ndcalc_context_create: the caller replaces a
\* context that has reported an error
RenewContext ==
    /\ ~handle.live
    /\ ctx.last_error # ""
    /\ ctx' = NewContext
    /\ last' = Call("context_create", "none", "NDCALC_OK")
    /\ UNCHANGED <<parser, parse_in, parse_out, handle, evaluators>>

NextCompile ==
    \/ CompileText
    \/ RenewContext
    \/ CompileEval
    \/ Destroy
    \/ EvalWide

SpecCompile == Init /\ [][NextCompile]_vars

(***************************************************************************)
(* Properties of compilation.                                              *)
(***************************************************************************)
\* an ndcalc_compile call on a one-variable text
CompileCall == last.op = "compile" /\ last.null = "none" /\ last.arg \in CompileInputs

\* the argument count a reserved function takes
RequiredArgs(f) == IF f = <<"p", "o", "w">> THEN 2 ELSE 1

RECURSIVE BadCalls(_)
\* the functions called in the tree T with another argument count
BadCalls(T) ==
    (IF T.type = "FUNCTION_CALL" /\ Len(T.children) # RequiredArgs(T.value)
     THEN {T.value} ELSE {})
    \cup UNION {BadCalls(T.children[k]) : k \in 1..Len(T.children)}

\* the text head x , ... , x ) with k arguments
ArgLexemes(k) == [i \in 1..(IF k = 0 THEN 1 ELSE 2 * k) |->
                     IF i = (IF k = 0 THEN 1 ELSE 2 * k) THEN <<")">>
                     ELSE IF i % 2 = 1 THEN <<"x">> ELSE <<",">>]
CallText(head, k) == head \o Join(ArgLexemes(k))

ArityErrors(T) == {ArityMessages[f] : f \in BadCalls(T)}

\* the check of C11 on the parse ast of the text of the last compile call
ArityCheckedOn(ast) ==
    /\ \A head \in CallHeads, k \in 0..2 :
         last.arg = CallText(head, k) =>
             /\ ast.ok
             /\ ast.node.type = "FUNCTION_CALL" /\ Len(ast.node.children) = k
             /\ (last.ret = "NDCALC_OK") <=> (k = RequiredArgs(ast.node.value))
    /\ ast.ok => last.ret # "NDCALC_ERROR_PARSE"
    /\ (ast.ok /\ BadCalls(ast.node) # {}) =>
           /\ last.ret = "NDCALC_ERROR_INVALID_EXPR"
           /\ ~last.written /\ ~handle.live
           /\ ctx.last_error \in ArityErrors(ast.node)
    /\ (ast.ok /\ BadCalls(ast.node) = {}) =>
           ctx.last_error \notin {ArityMessages[f] : f \in DOMAIN ArityMessages}

\* C11: the parser accepts calls of reserved functions with any number of
\* arguments, and the compile step rejects exactly the trees that call sin,
\* cos, tan, exp, log, sqrt or abs with other than 1 argument or pow with other
\* than 2: no program, and the arity message of such a function as the error.
C11_ArityInCompiler ==
    CompileCall => ArityCheckedOn(parse(NewParser, last.arg, ParseVariables))

\* pow( x ) passes the parser and is rejected by the compiler
C11_Witness ==
    /\ CompileCall /\ last.arg = CallText(<<"p", "o", "w", "(">>, 1)
    /\ last.ret = "NDCALC_ERROR_INVALID_EXPR"
    /\ ctx.last_error = "pow() requires exactly 2 arguments"

\* the check of C12 on the parse ast and the compilation bytecode of the text
FailureReportedOn(ast, bytecode) ==
    /\ (last.ret = "NDCALC_ERROR_PARSE") <=> ~ast.ok
    /\ (last.ret = "NDCALC_ERROR_INVALID_EXPR") <=> (ast.ok /\ ~bytecode.ok)
    /\ (last.ret = "NDCALC_OK") <=> (ast.ok /\ bytecode.ok)
    /\ last.ret = "NDCALC_ERROR_PARSE" => ctx.last_error = ast.parser.error_message_
    /\ last.ret = "NDCALC_ERROR_INVALID_EXPR" => ctx.last_error = bytecode.error
    /\ last.ret # "NDCALC_OK" =>
           /\ ctx.last_error # ""
           /\ ~last.written
           /\ handle = NoProgram
    /\ last.ret = "NDCALC_OK" => (last.written /\ handle.live)

CompiledIfParsed(ast) ==
    FailureReportedOn(ast, IF ast.ok THEN compile(ast.node)
                           ELSE [ok |-> FALSE, instructions |-> <<>>, error |-> ""])

\* C12: a compile call that fails returns NDCALC_ERROR_PARSE exactly when
\* tokenizing or parsing failed and NDCALC_ERROR_INVALID_EXPR exactly when the
\* bytecode compiler failed, leaves that step's non-empty message in the
\* context's last_error and stores nothing through out_program.
C12_FailedCompile ==
    CompileCall => CompiledIfParsed(parse(NewParser, last.arg, ParseVariables))

\* a number literal without digits: parsed, then refused by the compiler
C12_Witness ==
    /\ CompileCall /\ last.arg = <<".">>
    /\ last.ret = "NDCALC_ERROR_INVALID_EXPR"
    /\ ctx.last_error # "" /\ ~last.written /\ ~handle.live

(***************************************************************************)
(* Derivatives of programs of two variables.                               *)
(***************************************************************************)
DiffCatalogue ==
    << [expression |-> <<"x", " ", "*", " ", "y">>, variable_names |-> << <<"x">>, <<"y">> >>],
       [expression |-> <<"x", " ", "/", " ", "y">>, variable_names |-> << <<"x">>, <<"y">> >>],
       [expression |-> <<"x", "*", "x", "*", "y", "+", "y">>,
        variable_names |-> << <<"x">>, <<"y">> >>],
       [expression |-> <<"x", "/", "(", "y", "-", "1", ")">>,
        variable_names |-> << <<"x">>, <<"y">> >>] >>

CompileDiff == CompileFrom(DiffCatalogue)

\* a caller that takes derivatives of programs of two variables
NextDiff ==
    \/ CompileDiff
    \/ Destroy
    \/ SetAdMode
    \/ SetFdEpsilon
    \/ Gradient
    \/ Hessian

SpecDiff == Init /\ [][NextDiff]_vars

(***************************************************************************)
(* Properties of the derivative engines.                                   *)
(***************************************************************************)
\* a successful call of kind whose result the engine produced
EngineSucceeded(kind, engine) ==
    /\ last.op = kind /\ last.null = "none" /\ last.ret = "NDCALC_OK"
    /\ last.engines # <<>>
    /\ last.engines[Len(last.engines)].engine = engine

\* entry (i, j), 0-based, of the row-major n x n array the last call stored to
Entry(i, j) == last.output[i * last.num_inputs + j + 1]

\* C13: a successful finite-difference Hessian has stored every one of the
\* n * n entries, and entry (i, j) equals entry (j, i) for all i, j.
C13_HessianSymmetric ==
    EngineSucceeded("hessian", "FD") =>
        /\ Len(last.output) = last.num_inputs * last.num_inputs
        /\ \A k \in 1..Len(last.output) : last.output[k] # Unwritten
        /\ \A i, j \in 0..(last.num_inputs - 1) : Entry(i, j) = Entry(j, i)

\* a finite-difference Hessian of two variables with non-zero mixed partials
C13_Witness ==
    /\ EngineSucceeded("hessian", "FD")
    /\ last.num_inputs = 2
    /\ Entry(0, 1) # 0 /\ IsFinite(Entry(0, 1)) /\ Entry(1, 0) = Entry(0, 1)

(***************************************************************************)
(* Concurrent evaluation: NumEvaluators VM objects run VM::execute on the  *)
(* one BytecodeProgram behind handle.  A step is one iteration of the      *)
(* instruction loop; the steps of different evaluators interleave freely.  *)
(***************************************************************************)
SharedVectors == UNION {[1..n -> (0 - InputMax)..InputMax] : n \in 0..MaxInputs}

\* every evaluator uses the first evaluator's stack_
Owner_First(t) == 1

\* the VM object whose stack_ evaluator t pushes to and pops from: its own
Owner(t) == t

\* evaluator t left VM::execute
Left(E, t, ok, result, error) ==
    [E EXCEPT ![t].phase = "done", ![t].ok = ok, ![t].result = result,
              ![t].vm.error_message_ = error]

\* the stack_ write of evaluator t
Stacked(E, t, stack) == [E EXCEPT ![Owner(t)].vm.stack_ = stack]

\* some evaluator other than t is inside VM::execute
OthersRunning(t) == \E u \in 1..NumEvaluators : u # t /\ evaluators[u].phase = "running"

\* evaluator t enters VM::execute: clear_error, stack_.clear, the count test
Begin(t) ==
    /\ handle.live
    /\ evaluators[t].phase # "running"
    /\ \E inputs \in SharedVectors :
         Let([Stacked(evaluators, t, StackAtEntry(evaluators[Owner(t)].vm.stack_))
                 EXCEPT ![t].inputs = inputs, ![t].pc = 1, ![t].interleaved = FALSE,
                        ![t].vm.error_message_ = ""],
             LAMBDA E :
                 evaluators' =
                     IF CountMismatch(Len(inputs), handle.bytecode.num_variables)
                     THEN Left(E, t, FALSE, 0, "Input count mismatch")
                     ELSE [E EXCEPT ![t].phase = "running"])
    /\ UNCHANGED <<parser, parse_in, parse_out, ctx, handle, last>>

\* evaluator t runs one iteration of the instruction loop, or leaves it
Step(t) ==
    /\ evaluators[t].phase = "running"
    /\ Let([evaluators EXCEPT ![t].interleaved = @ \/ OthersRunning(t)], LAMBDA E :
           IF evaluators[t].pc > Len(handle.bytecode.instructions)
           THEN evaluators' = Left(E, t, FALSE, 0, "Missing return instruction")
           ELSE Let(VMStep(handle.bytecode.instructions[evaluators[t].pc],
                           evaluators[Owner(t)].vm.stack_, evaluators[t].inputs,
                           Len(evaluators[t].inputs), 0),
                    LAMBDA r :
                        evaluators' =
                            IF r.state = "running"
                            THEN [Stacked(E, t, r.stack) EXCEPT ![t].pc = @ + 1]
                            ELSE Left(Stacked(E, t, r.stack), t, r.state = "returned",
                                      r.result, r.error)))
    /\ UNCHANGED <<parser, parse_in, parse_out, ctx, handle, last>>

\* every evaluator is out of VM::execute; the VMs and the program are destroyed
Retire ==
    /\ handle.live
    /\ \A t \in 1..NumEvaluators : evaluators[t].phase = "done"
    /\ evaluators' = [t \in 1..NumEvaluators |-> IdleEvaluator]
    /\ handle' = NoProgram
    /\ last' = Call("destroy", "none", "NDCALC_OK")
    /\ UNCHANGED <<parser, parse_in, parse_out, ctx>>

NextShared ==
    \/ CompileEval
    \/ \E t \in 1..NumEvaluators : Begin(t)
    \/ \E t \in 1..NumEvaluators : Step(t)
    \/ Retire

SpecShared == Init /\ [][NextShared]_vars

\* what VM::execute returns on a VM of its own, with no other evaluator around
Alone(inputs) == execute(NewVM, handle.bytecode, inputs, Len(inputs))

SameOutcome(e, solo) ==
    /\ e.ok = solo.ok
    /\ e.ok => e.result = solo.result
    /\ e.vm.error_message_ = solo.vm.error_message_

\* C15: whatever the interleaving of the instruction steps of evaluators that
\* share one program, each evaluator that has left execute holds the return
\* value, the result and the error message it gets when it runs alone.
C15_SharedProgram ==
    \A t \in 1..NumEvaluators :
        evaluators[t].phase = "done" =>
            SameOutcome(evaluators[t], Alone(evaluators[t].inputs))

\* two evaluations whose steps interleaved and that ended differently
C15_Witness ==
    /\ \A t \in 1..NumEvaluators : evaluators[t].phase = "done" /\ evaluators[t].interleaved
    /\ evaluators[1].ok /\ ~evaluators[2].ok
    /\ evaluators[2].vm.error_message_ = "Division by zero"

(***************************************************************************)
(* Properties of compiled programs.                                        *)
(***************************************************************************)
\* exactly one RETURN, as the last instruction
ReturnsOnce(instructions) ==
    /\ instructions # <<>>
    /\ \A k \in 1..Len(instructions) :
         (instructions[k].opcode = "RETURN") <=> (k = Len(instructions))

\* the errors of VM::execute about the shape of the program
StructuralErrors ==
    {"Stack underflow in " \o op : op \in BinaryOps \cup UnaryOps}
    \cup {"Invalid stack size at return", "Missing return instruction"}

\* an iteration that found the operands its opcode takes
Supplied(e) ==
    /\ e.opcode \in BinaryOps => Len(e.stack) >= 2
    /\ e.opcode \in UnaryOps => Len(e.stack) >= 1
    /\ e.opcode = "RETURN" => Len(e.stack) = 1

\* the check of C16 on the iterations t of the last evaluate call
WellFormedRun(t) ==
    /\ \A k \in 1..Len(t) : Supplied(t[k])
    /\ handle.vm.error_message_ \notin StructuralErrors
    /\ last.ret = "NDCALC_OK" =>
           /\ Len(t) = Len(handle.bytecode.instructions)
           /\ t[Len(t)].opcode = "RETURN" /\ t[Len(t)].state = "returned"
    /\ last.ret # "NDCALC_OK" => DomainViolation(t[Len(t)])

\* C16: a program the compiler produced from a parsed expression has exactly
\* one RETURN, its last instruction; run on an input of the right size, every
\* instruction finds its operands on the stack and RETURN finds exactly one
\* value, so the run ends in a value or in a domain error, never in 'Stack
\* underflow', 'Invalid stack size at return' or 'Missing return instruction'.
C16_CompiledProgramsWellFormed ==
    handle.live =>
        /\ ReturnsOnce(handle.bytecode.instructions)
        /\ ScalarRun =>
               WellFormedRun(VMTrace(handle.bytecode.instructions, 1, <<>>, last.inputs,
                                     last.num_inputs, <<>>))

\* pow( x , x ) compiled to four instructions and evaluated to a value
C16_Witness ==
    /\ handle.live /\ ScalarRun /\ last.ret = "NDCALC_OK"
    /\ Len(handle.bytecode.instructions) = 4
    /\ handle.bytecode.instructions[3].opcode = "POW"

(***************************************************************************)
(* Compilation with the source text kept: parse_in holds the arguments     *)
(* ndcalc_compile handed to Parser::parse.                                 *)
(***************************************************************************)
TwoVariables == << <<"x">>, <<"y">> >>

\* expressions of two variables whose operands fail in different ways
OrderTexts ==
    { <<"x", "-", "y">>, <<"x", "/", "y">>, <<"x", "^", "y">>,
      <<"p", "o", "w", "(", "x", ",", "y", ")">>,
      <<"l", "o", "g", "(", "x", ")", "-", "s", "q", "r", "t", "(", "y", ")">>,
      <<"s", "q", "r", "t", "(", "x", ")", "/", "l", "o", "g", "(", "y", ")">>,
      <<"1", "/", "x", "-", "1", "/", "y">>,
      <<"-", "x", "/", "(", "y", "-", "1", ")">> }

\* a name list that names x twice, and texts over it
DuplicateNames == << <<"x">>, <<"x">> >>
DuplicateTexts == { <<"x">>, <<"1", "/", "x">>, <<"x", "-", "x">> }

TranslateInputs ==
    {[expression |-> e, variables |-> ParseVariables] : e \in CompileInputs}
    \cup {[expression |-> e, variables |-> TwoVariables] : e \in OrderTexts}
    \cup {[expression |-> e, variables |-> DuplicateNames] : e \in DuplicateTexts}

\* ndcalc_compile into the caller's free handle
Translate ==
    /\ ~handle.live
    /\ parse_in = <<>>
    /\ \E in \in TranslateInputs :
         /\ Compiled(in.expression,
                     ndcalc_compile(ctx, in.expression, Len(in.variables), in.variables))
         /\ parse_in' = in
    /\ UNCHANGED <<parser, parse_out, evaluators>>

\* the caller destroys the program, if any, and the context, and starts over
Forget ==
    /\ parse_in # <<>>
    /\ parse_in' = <<>>
    /\ handle' = NoProgram
    /\ ctx' = NewContext
    /\ last' = Call("context_create", "none", "NDCALC_OK")
    /\ UNCHANGED <<parser, parse_out, evaluators>>

NextTranslate ==
    \/ Translate
    \/ EvalWide
    \/ Forget

SpecTranslate == Init /\ [][NextTranslate]_vars

(***************************************************************************)
(* Properties of the translation.                                          *)
(***************************************************************************)
RECURSIVE PostOrder(_)
\* the instructions of the tree T in post-order
PostOrder(T) ==
    CASE T.type = "NUMBER" -> <<Instruction("PUSH_CONST", stod(T.value).value)>>
      [] T.type = "VARIABLE" -> <<Instruction("LOAD_VAR", stoull(T.value))>>
      [] T.type = "BINARY_OP" ->
            PostOrder(T.children[1]) \o PostOrder(T.children[2])
                \o <<Instruction(BinaryOpcodes[T.value], 0)>>
      [] T.type = "UNARY_OP" -> PostOrder(T.children[1]) \o <<Instruction("NEG", 0)>>
      [] T.type = "FUNCTION_CALL" ->
            IF Len(T.children) = 1
            THEN PostOrder(T.children[1]) \o <<Instruction(UnaryFunctionOpcodes[T.value], 0)>>
            ELSE PostOrder(T.children[1]) \o PostOrder(T.children[2])
                     \o <<Instruction("POW", 0)>>

Value(v) == [ok |-> TRUE, value |-> v, error |-> ""]
Error(message) == [ok |-> FALSE, value |-> 0, error |-> message]

\* the operator or function of a node applied to evaluated operands
Applied(T, a) ==
    CASE T.type = "BINARY_OP" /\ T.value = <<"+">> -> Value(FAdd(a[1], a[2]))
      [] T.type = "BINARY_OP" /\ T.value = <<"-">> -> Value(FSub(a[1], a[2]))
      [] T.type = "BINARY_OP" /\ T.value = <<"*">> -> Value(FMul(a[1], a[2]))
      [] T.type = "BINARY_OP" /\ T.value = <<"/">> ->
            IF a[2] = 0 THEN Error("Division by zero") ELSE Value(FDiv(a[1], a[2]))
      [] T.type = "BINARY_OP" /\ T.value = <<"^">> -> Value(FPow(a[1], a[2]))
      [] T.type = "UNARY_OP" -> Value(FNeg(a[1]))
      [] T.type = "FUNCTION_CALL" /\ T.value = <<"p", "o", "w">> -> Value(FPow(a[1], a[2]))
      [] T.type = "FUNCTION_CALL" /\ T.value = <<"l", "o", "g">> ->
            IF IsNaN(a[1]) \/ a[1] > 0 THEN Value(FLog(a[1]))
            ELSE Error("Logarithm of non-positive number")
      [] T.type = "FUNCTION_CALL" /\ T.value = <<"s", "q", "r", "t">> ->
            IF IsNaN(a[1]) \/ a[1] >= 0 THEN Value(FSqrt(a[1]))
            ELSE Error("Square root of negative number")
      [] T.type = "FUNCTION_CALL" /\ T.value = <<"s", "i", "n">> -> Value(FSin(a[1]))
      [] T.type = "FUNCTION_CALL" /\ T.value = <<"c", "o", "s">> -> Value(FCos(a[1]))
      [] T.type = "FUNCTION_CALL" /\ T.value = <<"t", "a", "n">> -> Value(FTan(a[1]))
      [] T.type = "FUNCTION_CALL" /\ T.value = <<"e", "x", "p">> -> Value(FExp(a[1]))
      [] T.type = "FUNCTION_CALL" /\ T.value = <<"a", "b", "s">> -> Value(FAbs(a[1]))

RECURSIVE Evaluate(_, _)
\* the tree T evaluated recursively at inputs, operands from left to right,
\* stopping at the first error
Evaluate(T, inputs) ==
    CASE T.type = "NUMBER" -> Value(stod(T.value).value)
      [] T.type = "VARIABLE" -> Value(inputs[stoull(T.value) + 1])
      [] Len(T.children) = 1 ->
            Let(Evaluate(T.children[1], inputs), LAMBDA a :
                IF ~a.ok THEN a ELSE Applied(T, <<a.value>>))
      [] OTHER ->
            Let(Evaluate(T.children[1], inputs), LAMBDA a :
                IF ~a.ok THEN a
                ELSE Let(Evaluate(T.children[2], inputs), LAMBDA b :
                         IF ~b.ok THEN b ELSE Applied(T, <<a.value, b.value>>)))

\* the last evaluate call ended as the recursive evaluation r did
EndedAs(r) ==
    /\ (last.ret = "NDCALC_OK") <=> r.ok
    /\ r.ok => last.output = <<r.value>>
    /\ ~r.ok => (last.ret = "NDCALC_ERROR_EVAL" /\ handle.vm.error_message_ = r.error)

\* the check of C17 on the tree T the program was compiled from
TranslatedFrom(T) ==
    /\ handle.bytecode.instructions = PostOrder(T) \o <<Instruction("RETURN", 0)>>
    /\ ScalarRun => EndedAs(Evaluate(T, last.inputs))

\* C17: the instructions of a compiled program are the post-order of its
\* tree (left operand, right operand, operator; arguments in order, then the
\* function) followed by RETURN, and evaluating the program gives the value,
\* or the error, of the recursive left-to-right evaluation of the tree.
C17_PostOrder ==
    (handle.live /\ parse_in # <<>>) =>
        TranslatedFrom(parse(NewParser, parse_in.expression, parse_in.variables).node)

\* sqrt(x)/log(y) at a point where both operands are out of domain: the
\* left operand's error is the one reported
C17_Witness ==
    /\ handle.live /\ parse_in # <<>> /\ ScalarRun
    /\ parse_in.expression =
           <<"s", "q", "r", "t", "(", "x", ")", "/", "l", "o", "g", "(", "y", ")">>
    /\ last.inputs[1] < 0 /\ last.inputs[2] <= 0
    /\ handle.vm.error_message_ = "Square root of negative number"

(***************************************************************************)
(* Hand-assembled programs: any instruction sequence up to MaxProgramLen,  *)
(* run by VM::execute and then, on the same input, by                      *)
(* AutoDiff::execute_dual as one pass of compute_gradient.                 *)
(***************************************************************************)
MaxProgramLen == 4

HandInstructions ==
    {Instruction("LOAD_VAR", 0), Instruction("LOAD_VAR", 1), Instruction("DIV", 0),
     Instruction("LOG", 0), Instruction("SQRT", 0), Instruction("RETURN", 0)}

HandVectors == UNION {[1..n -> (0 - InputMax)..InputMax] : n \in 1..MaxInputs}

\* BytecodeProgram::add_instruction for each instruction, set_num_variables
Assemble ==
    /\ ~handle.live
    /\ \E instructions \in SeqsUpTo(HandInstructions, MaxProgramLen), n \in 1..MaxInputs :
         handle' = NewProgram(NewContext, instructions, n)
    /\ last' = Call("assemble", "none", "NDCALC_OK")
    /\ UNCHANGED <<parser, parse_in, parse_out, ctx, evaluators>>

\* VM::execute on the assembled program
Execute ==
    /\ handle.live
    /\ last.op = "assemble"
    /\ \E inputs \in HandVectors :
         Evaluated(inputs, execute(handle.vm, handle.bytecode, inputs, Len(inputs)))
    /\ UNCHANGED <<parser, parse_in, parse_out, ctx, evaluators>>

\* the caller's state after AutoDiff::execute_dual handed back r in pass i
DualExecuted(inputs, i, r) ==
    /\ handle' = [handle EXCEPT !.autodiff = r.ad]
    /\ last' = [Call("execute_dual", "none", RetOf(r.ok))
                   EXCEPT !.arg = i, !.inputs = inputs, !.num_inputs = Len(inputs),
                          !.output = <<r.result.value, r.result.derivative>>,
                          !.engines = <<[engine |-> "AD", ok |-> r.ok]>>,
                          !.steps = r.steps]

\* AutoDiff::execute_dual on the input VM::execute just ran on, seeded for
\* variable i
ExecuteDual ==
    /\ handle.live
    /\ last.op = "eval"
    /\ \E i \in 0..(last.num_inputs - 1) :
         DualExecuted(last.inputs, i,
                      execute_dual(handle.autodiff, handle.bytecode,
                                   dual_inputs(last.inputs, last.num_inputs, i),
                                   last.num_inputs))
    /\ UNCHANGED <<parser, parse_in, parse_out, ctx, evaluators>>

NextVM ==
    \/ Assemble
    \/ Execute
    \/ ExecuteDual
    \/ Destroy

SpecVM == Init /\ [][NextVM]_vars

(***************************************************************************)
(* Properties of the two interpreters on arbitrary programs.               *)
(***************************************************************************)
\* a VM::execute call on a hand-assembled program
ExecuteCall == last.op = "eval" /\ last.null = "none" /\ handle.live

\* the position of the first RETURN (past the end when there is none)
FirstReturn(instructions) ==
    IF \E k \in 1..Len(instructions) : instructions[k].opcode = "RETURN"
    THEN CHOOSE k \in 1..Len(instructions) :
             /\ instructions[k].opcode = "RETURN"
             /\ \A j \in 1..(k - 1) : instructions[j].opcode # "RETURN"
    ELSE Len(instructions) + 1

\* the operands an opcode takes off the stack
Needs(opcode) ==
    IF opcode \in BinaryOps THEN 2 ELSE IF opcode \in UnaryOps THEN 1 ELSE 0

\* an iteration that ended as its stack depth demands
Guarded(e) ==
    /\ Len(e.stack) < Needs(e.opcode) =>
           (e.state = "failed" /\ e.error = "Stack underflow in " \o e.opcode)
    /\ e.opcode = "RETURN" =>
           IF Len(e.stack) = 1 THEN e.state = "returned"
           ELSE e.state = "failed" /\ e.error = "Invalid stack size at return"
    /\ e.state = "returned" => e.opcode = "RETURN"

\* the check of C18 on the iterations t of the last execute call
SafeRun(t) ==
    /\ \A k \in 1..Len(t) : Guarded(t[k])
    /\ \A k \in 1..(Len(t) - 1) : t[k].state = "running"
    /\ Len(t) <= FirstReturn(handle.bytecode.instructions)
    /\ last.steps = Len(t)
    /\ (last.ret = "NDCALC_OK") <=> (t # <<>> /\ t[Len(t)].state = "returned")
    /\ last.ret = "NDCALC_OK" => last.output = <<Operand(t[Len(t)])>>
    /\ (t = <<>> \/ t[Len(t)].state = "running") =>
           (last.ret # "NDCALC_OK" /\ handle.vm.error_message_ = "Missing return instruction")
    /\ (t # <<>> /\ t[Len(t)].state = "failed") =>
           handle.vm.error_message_ = t[Len(t)].error

\* C18: on any instruction sequence VM::execute succeeds exactly when it
\* reaches a RETURN with one value on the stack; an opcode that finds fewer
\* operands than it takes fails with 'Stack underflow in <opcode>', a RETURN at
\* another depth fails, running off the end fails with 'Missing return
\* instruction', and nothing after the first RETURN is executed.
C18_ExecuteSafe ==
    (ExecuteCall /\ last.num_inputs = handle.bytecode.num_variables) =>
        SafeRun(VMTrace(handle.bytecode.instructions, 1, <<>>, last.inputs,
                        last.num_inputs, <<>>))

\* LOAD_VAR 0, RETURN, DIV: the RETURN succeeds and the DIV behind it, which
\* would underflow, is never executed
C18_Witness ==
    /\ ExecuteCall /\ last.ret = "NDCALC_OK" /\ last.steps = 2
    /\ Len(handle.bytecode.instructions) = 3
    /\ handle.bytecode.instructions[3].opcode = "DIV"

\* the last execute_dual call ended as the VM run vm on the same input
Refines(vm) ==
    /\ (last.ret = "NDCALC_OK") <=> vm.ok
    /\ vm.ok => last.output[1] = vm.result
    /\ ~vm.ok => handle.autodiff.error_message_ = vm.vm.error_message_
    /\ handle.vm.error_message_ = vm.vm.error_message_
    /\ last.steps = vm.steps

SeededPass(i) ==
    execute_dual(NewAutoDiff, handle.bytecode,
                 [j \in 1..last.num_inputs |->
                     [value |-> last.inputs[j], derivative |-> IF j = i THEN 1 ELSE 0]],
                 last.num_inputs)

RECURSIVE PassSteps(_)
\* the instructions the passes 1..n execute together
PassSteps(n) == IF n = 0 THEN 0 ELSE PassSteps(n - 1) + SeededPass(n).steps

\* C20: a successful AD gradient over n inputs has run the program exactly n
\* times over duals, the i-th time with the caller's values and the derivative
\* seeded to 1 at variable i and 0 elsewhere, and gradient[i] is the
\* derivative component of the i-th run's result.
C20_GradientPasses ==
    EngineSucceeded("gradient", "AD") =>
        /\ Len(last.output) = last.num_inputs
        /\ \A i \in 1..last.num_inputs :
             /\ SeededPass(i).ok
             /\ last.output[i] = SeededPass(i).result.derivative
        /\ last.steps = PassSteps(last.num_inputs)
        /\ last.steps = last.num_inputs * Len(handle.bytecode.instructions)

\* the gradient of x * y at (1, 0): two passes of four instructions, (0, 1)
C20_Witness ==
    /\ EngineSucceeded("gradient", "AD")
    /\ last.inputs = <<1, 0>>
    /\ last.output = <<0, 1>>
    /\ last.steps = 8

(***************************************************************************)
(* Properties of the AD Hessian.                                           *)
(***************************************************************************)
\* a hessian call on a program compiled under FORWARD, past the count test
ForwardHessian ==
    /\ last.op = "hessian" /\ last.null = "none"
    /\ handle.ad_mode = "FORWARD"
    /\ last.num_inputs = handle.bytecode.num_variables

\* the last call made again on the same program under the epsilon e
UnderEpsilon(e) ==
    ndcalc_derivative("hessian", [handle EXCEPT !.finite_diff.epsilon_ = e], last.inputs,
                      last.num_inputs, last.num_inputs * last.num_inputs)

SameHessian(r) ==
    /\ r.ret = last.ret
    /\ r.output = last.output
    /\ r.passes = last.passes
    /\ r.steps = last.steps

\* the base point, then input i shifted by the fixed step, for i = 0..n-1
ShiftedPoints ==
    <<last.inputs>> \o
    [i \in 1..last.num_inputs |->
        [last.inputs EXCEPT ![i] = FAdd(last.inputs[i], ADHessianStep)]]

\* C21: a FORWARD hessian call hands compute_gradient the base point and then
\* the input shifted in coordinate i alone by the fixed step, for i = 0..n-1
\* (all of them when it succeeds, a prefix when a pass fails), and the same
\* call under any other configured epsilon makes the same passes and returns
\* the same code and matrix.
C21_HessianIgnoresEpsilon ==
    ForwardHessian =>
        /\ \A e \in Epsilons : SameHessian(UnderEpsilon(e))
        /\ last.engines = <<[engine |-> "AD", ok |-> last.ret = "NDCALC_OK"]>>
        /\ last.passes = SubSeq(ShiftedPoints, 1, Len(last.passes))
        /\ last.ret = "NDCALC_OK" => last.passes = ShiftedPoints

\* a FORWARD Hessian of two variables on a program whose epsilon is not the
\* fixed step: three passes, the shifts being of the fixed step
C21_Witness ==
    /\ ForwardHessian /\ last.ret = "NDCALC_OK"
    /\ handle.finite_diff.epsilon_ # ADHessianStep
    /\ last.num_inputs = 2 /\ Len(last.passes) = 3
    /\ last.passes[3] = <<last.inputs[1], last.inputs[2] + ADHessianStep>>

(***************************************************************************)
(* Properties of the finite-difference stencils.                           *)
(***************************************************************************)
\* a gradient or hessian call of kind that FiniteDiff alone served, past the
\* count test
FDCall(kind) ==
    /\ last.op = kind /\ last.null = "none"
    /\ handle.ad_mode = "FINITE_DIFF"
    /\ last.num_inputs = handle.bytecode.num_variables

\* the caller's input moved by d in coordinate i (1-based)
Moved(point, i, d) == [point EXCEPT ![i] = FAdd(last.inputs[i], d)]

RECURSIVE GradientStencil(_, _)
\* the points of gradient components i..n: input + h e_i, input - h e_i
GradientStencil(i, h) ==
    IF i > last.num_inputs THEN <<>>
    ELSE <<Moved(last.inputs, i, h), Moved(last.inputs, i, 0 - h)>>
             \o GradientStencil(i + 1, h)

RECURSIVE PairStencil(_, _, _)
\* the points of the pairs (i, j..n): input + h e_i + h e_j, input + h e_j
PairStencil(i, j, h) ==
    IF j > last.num_inputs THEN <<>>
    ELSE <<Moved(Moved(last.inputs, i, h), j, h), Moved(last.inputs, j, h)>>
             \o PairStencil(i, j + 1, h)

RECURSIVE HessianStencil(_, _)
\* the points of the Hessian rows i..n
HessianStencil(i, h) ==
    IF i > last.num_inputs THEN <<>>
    ELSE <<Moved(last.inputs, i, h), Moved(last.inputs, i, 0 - h)>>
             \o PairStencil(i, i + 1, h) \o HessianStencil(i + 1, h)

\* the last call evaluated the points of stencil in order, all of them when it
\* succeeded and up to the failing one when it failed
Followed(stencil) ==
    /\ Len(last.points) <= Len(stencil)
    /\ last.points = SubSeq(stencil, 1, Len(last.points))
    /\ last.ret = "NDCALC_OK" => last.points = stencil
    /\ last.ret # "NDCALC_OK" => last.points # <<>>

\* C22: the points FiniteDiff evaluates are, in order, those of its stencil:
\* for a gradient input + h e_i and input - h e_i per component; for a Hessian
\* the base point, then per row i input + h e_i, input - h e_i and, for every
\* j > i, input + h e_i + h e_j and input + h e_j; every other coordinate holds
\* the caller's value, so each perturbation was undone before the next.
C22_StencilPoints ==
    /\ FDCall("gradient") => Followed(GradientStencil(1, handle.finite_diff.epsilon_))
    /\ FDCall("hessian") =>
           Followed(<<last.inputs>> \o HessianStencil(1, handle.finite_diff.epsilon_))

\* a finite-difference Hessian of two variables at a point with a non-zero
\* first coordinate: seven evaluations, the last at input + h e_1 alone
C22_Witness ==
    /\ FDCall("hessian") /\ last.ret = "NDCALC_OK"
    /\ last.num_inputs = 2 /\ last.inputs[1] # 0
    /\ Len(last.points) = 7
    /\ last.points[7][1] = last.inputs[1]

(***************************************************************************)
(* Properties of variable indices.                                         *)
(***************************************************************************)
\* the operands of the LOAD_VAR instructions of the program
LoadedIndices ==
    {handle.bytecode.instructions[k].operand :
        k \in {n \in 1..Len(handle.bytecode.instructions) :
                  handle.bytecode.instructions[n].opcode = "LOAD_VAR"}}

\* C23: every LOAD_VAR index of a program ndcalc_compile produced is below
\* the variable count the program stores, which is the length of the caller's
\* name list (duplicates included), and an evaluation with an input of that
\* size never fails with 'Variable index out of bounds'.
C23_IndicesInRange ==
    (handle.live /\ parse_in # <<>>) =>
        /\ handle.bytecode.num_variables = Len(parse_in.variables)
        /\ \A index \in LoadedIndices :
             index < handle.bytecode.num_variables
        /\ ScalarRun => handle.vm.error_message_ # "Variable index out of bounds"

\* x compiled against the names (x, x) loads index 1 of 2 and evaluates
C23_Witness ==
    /\ handle.live /\ parse_in # <<>> /\ ScalarRun
    /\ parse_in.variables = DuplicateNames
    /\ LoadedIndices = {1}
    /\ last.ret = "NDCALC_OK"

(***************************************************************************)
(* Properties of token access.                                             *)
(***************************************************************************)
\* the index (0-based) of the last token of the list the parser holds
EndIndex == Len(parser.tokens_) - 1

\* C24: when tokenizing succeeds the token list ends with an END token and
\* holds no other, and the position the parser reads tokens at, which only
\* moves forward, never passes the END token: it is at most the END index
\* when parse returns, and exactly there when parse succeeds.
C24_ReadsWithinTokens ==
    (parse_out.called /\ parser.tokens_ # <<>>) =>
        /\ \A k \in 1..Len(parser.tokens_) :
             (parser.tokens_[k].type = "END") <=> (k = Len(parser.tokens_))
        /\ parse_out.pos <= EndIndex
        /\ parse_out.ok => parse_out.pos = EndIndex

\* sin( x , : the argument rule runs into END and parse stops on it
C24_Witness ==
    /\ parse_out.called /\ ~parse_out.ok
    /\ parse_in.expression = <<"s", "i", "n", "(">> \o Join(<< <<"x">>, <<",">> >>)
    /\ Len(parser.tokens_) = 5
    /\ parse_out.pos = EndIndex

(***************************************************************************)
(* Properties of the output of a derivative call.                          *)
(***************************************************************************)
\* the engine that ran last in the last call
LastEngine == last.engines[Len(last.engines)].engine

\* that engine run by itself on the same program and inputs, storing into an
\* array no one has written to
RunAlone ==
    RunEngine(last.op, LastEngine, handle, last.inputs, last.num_inputs,
              [k \in 1..Len(last.output) |-> Unwritten])

\* the output of the last call is, entry for entry, what the run r stored
WrittenBy(r) ==
    /\ r.ok
    /\ r.output = last.output
    /\ \A k \in 1..Len(last.output) : last.output[k] # Unwritten

\* C25: when a gradient or hessian call returns NDCALC_OK, its output is
\* entry for entry what the engine that succeeded stores into an untouched
\* array, and that engine stores to every entry: nothing an earlier, failed
\* engine wrote is left in a successful result.
C25_OneEngineWritesAll ==
    (DerivativeCall /\ last.ret = "NDCALC_OK") => WrittenBy(RunAlone)

\* an AUTO Hessian where AutoDiff wrote the first row and failed in its third
\* pass, and FiniteDiff then succeeded
C25_Witness ==
    /\ DerivativeCall /\ last.op = "hessian" /\ last.ret = "NDCALC_OK"
    /\ last.engines = <<[engine |-> "AD", ok |-> FALSE], [engine |-> "FD", ok |-> TRUE]>>
    /\ Len(last.passes) = 3

(***************************************************************************)
(* Properties of the configuration.                                        *)
(***************************************************************************)
\* the mode and epsilon a program holds
Settings(p) == <<p.ad_mode, p.finite_diff.epsilon_>>

\* a step of the caller keeps the snapshot discipline
SnapshotStep ==
    /\ (last'.op = "compile" /\ last'.ret = "NDCALC_OK") =>
           (handle'.live /\ Settings(handle') = <<ctx.ad_mode, ctx.fd_epsilon>>)
    /\ last'.op \in {"set_ad_mode", "set_fd_epsilon"} => handle' = handle
    /\ (handle.live /\ handle'.live /\ last'.op # "compile") =>
           Settings(handle') = Settings(handle)

\* C26: a successful ndcalc_compile gives the program the context's mode and
\* epsilon of that moment; ndcalc_set_ad_mode and ndcalc_set_fd_epsilon leave
\* the program untouched, and no later call changes the mode or epsilon a
\* compiled program holds.
C26_SettingsSnapshot == [][SnapshotStep]_vars

\* a program compiled under a mode and an epsilon that are not the defaults,
\* after the context was set to something else again
C26_Witness ==
    /\ handle.live
    /\ last.op \in {"set_ad_mode", "set_fd_epsilon"}
    /\ handle.ad_mode # "AUTO" /\ handle.ad_mode # ctx.ad_mode
    /\ handle.finite_diff.epsilon_ # DefaultEpsilon
    /\ handle.finite_diff.epsilon_ # ctx.fd_epsilon

(***************************************************************************)
(* Errors through the C API: a caller compiles texts that are accepted or  *)
(* rejected, with every pointer argument there or null, directly or        *)
(* through the WASM binding, and evaluates and differentiates what it got. *)
(***************************************************************************)
ErrorCatalogue ==
    << [expression |-> <<"1">>, variable_names |-> <<>>],
       [expression |-> <<"1", "/", "x">>, variable_names |-> << <<"x">> >>],
       [expression |-> <<"x", "+">>, variable_names |-> << <<"x">> >>],
       [expression |-> <<"s", "i", "n", "(", "x", ",", "x", ")">>,
        variable_names |-> << <<"x">> >>] >>

CompileNulls == {"none", "ctx", "expression", "variable_names", "out_program"}

\* the caller's state after ndcalc_compile, called with null, handed back r
Answered(expression, num_variables, null, r) ==
    /\ ctx' = r.ctx
    /\ handle' = IF r.written THEN r.program ELSE handle
    /\ last' = [Call("compile", null, r.ret) EXCEPT !.arg = expression,
                                                   !.written = r.written,
                                                   !.num_variables = num_variables]

\* ndcalc_compile of an entry of ErrorCatalogue into the caller's free handle
CompileChecked ==
    /\ ~handle.live
    /\ \E k \in 1..Len(ErrorCatalogue), null \in CompileNulls :
         Answered(ErrorCatalogue[k].expression, Len(ErrorCatalogue[k].variable_names), null,
                  ndcalc_compile_checked(ctx, null, ErrorCatalogue[k].expression,
                                         Len(ErrorCatalogue[k].variable_names),
                                         ErrorCatalogue[k].variable_names))
    /\ UNCHANGED <<parser, parse_in, parse_out, evaluators>>

\* compile_binding of an entry of ErrorCatalogue into the caller's free handle
CompileBinding ==
    /\ ~handle.live
    /\ \E k \in 1..Len(ErrorCatalogue) :
         Answered(ErrorCatalogue[k].expression, Len(ErrorCatalogue[k].variable_names),
                  IF ErrorCatalogue[k].variable_names = <<>> THEN "variable_names" ELSE "none",
                  compile_binding(ctx, ErrorCatalogue[k].expression,
                                  ErrorCatalogue[k].variable_names))
    /\ UNCHANGED <<parser, parse_in, parse_out, evaluators>>

NextErrors ==
    \/ CompileChecked
    \/ CompileBinding
    \/ Destroy
    \/ Eval
    \/ EvalBatch
    \/ Gradient
    \/ Hessian

SpecErrors == Init /\ [][NextErrors]_vars

(***************************************************************************)
(* Properties of error reporting.                                          *)
(***************************************************************************)
\* the message a failed ndcalc_compile call leaves in last_error (the texts
\* of ErrorCatalogue that are rejected are texts over the one variable x)
FailureMessage(call) ==
    CASE call.null # "none" -> "Null pointer argument"
      [] call.ret = "NDCALC_ERROR_PARSE" ->
            parse(NewParser, call.arg, <<<<"x">>>>).parser.error_message_
      [] OTHER -> compile(parse(NewParser, call.arg, <<<<"x">>>>).node).error

\* an ndcalc_compile call on the caller's context that failed
FailedCompile(call) ==
    call.op = "compile" /\ call.ret # "NDCALC_OK" /\ call.null # "ctx"

\* a step of the caller keeps last_error the message of the failed compile
LastErrorStep ==
    /\ ctx'.last_error # ctx.last_error => FailedCompile(last')
    /\ FailedCompile(last') =>
           ndcalc_get_last_error_message(ctx') = FailureMessage(last')
    /\ last'.op \in {"eval", "eval_batch", "gradient", "hessian"} => ctx' = ctx
    /\ (last'.op = "compile" /\ last'.ret = "NDCALC_OK") => ctx' = ctx

\* C28: last_error starts empty; only an ndcalc_compile call that fails
\* assigns it, and it assigns its own message; evaluate, batch, gradient and
\* Hessian calls, failing or not, and a successful ndcalc_compile leave the
\* context as it was.  So ndcalc_get_last_error_message gives the message of
\* the most recent failed compile, or the empty string.
C28_LastErrorFromCompile ==
    /\ ndcalc_get_last_error_message(ctx) = ""
    /\ [][LastErrorStep]_vars

\* a failed evaluation on a program compiled after a compile was rejected
C28_Witness ==
    /\ handle.live
    /\ last.op \in {"eval", "gradient"} /\ last.ret = "NDCALC_ERROR_EVAL"
    /\ ndcalc_get_last_error_message(ctx) = "sin() requires exactly 1 argument"

\* a call that stopped at its null test: nothing stored, nothing executed
StoppedAtNullTest(call) ==
    /\ call.ret = "NDCALC_ERROR_NULL_POINTER"
    /\ ~call.written
    /\ call.steps = 0 /\ call.engines = <<>>
    /\ \A k \in 1..Len(call.output) : call.output[k] = Unwritten

\* a step of the caller in which a null argument is answered
NullStep ==
    last'.null # "none" =>
        /\ StoppedAtNullTest(last')
        /\ handle' = handle
        /\ ctx' = IF last'.op = "compile" /\ last'.null # "ctx"
                  THEN [ctx EXCEPT !.last_error = "Null pointer argument"]
                  ELSE ctx

\* C29: ndcalc_compile, ndcalc_eval, ndcalc_eval_batch, ndcalc_gradient and
\* ndcalc_hessian called with a null pointer argument return
\* NDCALC_ERROR_NULL_POINTER, store nothing, execute nothing and leave the
\* program as it was, whatever the counts: also ndcalc_compile with no
\* variables and a null array of names, and the other calls on a program of
\* no variables with null inputs.  Of the context only last_error changes,
\* and only in ndcalc_compile.
C29_NullPointerFirst == [][NullStep]_vars

\* the constant 1 compiled with no variables, then evaluated or
\* differentiated with null inputs
C29_Witness ==
    /\ handle.live /\ handle.bytecode.num_variables = 0
    /\ last.op \in {"eval", "gradient", "hessian"}
    /\ last.null = "inputs" /\ last.num_inputs = 0
    /\ last.ret = "NDCALC_ERROR_NULL_POINTER"
    /\ ndcalc_get_last_error_message(ctx) = "Null pointer argument"

(***************************************************************************)
(* Properties of parenthesis nesting.                                      *)
(***************************************************************************)
\* the pairs of parentheses of the parsed text, when it is an atom in
\* parentheses
Pairs == (Len(parse_in.expression) - 1) \div 2

\* a parse of an atom in k = Pairs pairs of parentheses
NestedRun ==
    /\ parse_out.called
    /\ Len(parse_in.expression) = 2 * Pairs + 1
    /\ \E atom \in {<<"x">>, <<"2">>} : parse_in.expression = Nested(Pairs, atom)

====
